---- MODULE Spec2Model ----
(***************************************************************************)
(* A model of the turn/phase state machine, the animation engine and the   *)
(* shot resolution of "Defend the caravan" (src/src/main.rs), over the     *)
(* geometry kernel and the grid container of src/src/coords.rs.            *)
(*                                                                         *)
(* The state is the set of locals that `main` moves into the event-loop    *)
(* closure; there is one action per event handler.  Wall-clock time is     *)
(* abstracted: whether an animation `is_done` in a tick is a free choice   *)
(* of that tick.  Sprites, sounds, the "alive" and "colored" decorations   *)
(* of objects and the visual variants of tiles are presentation only and   *)
(* are left out.  A Rust panic stops the process: `crashed` becomes TRUE   *)
(* and no handler runs any more.                                           *)
(***************************************************************************)
EXTENDS Integers, Sequences, FiniteSets, TLC

VARIABLES
    map,                               \* Map.grid : Grid<Tile>
    phase,                             \* "Player" | "Enemy" | "Tower" | "GameOver"
    interface_mode,                    \* InterfaceMode
    turn_counter,
    distance_traveled,
    crystal_amount,
    current_animations,                \* Vec<Animation>
    end_player_phase_after_animation,
    end_player_phase_right_now,
    camera_x,                          \* map_drawing_config.camera_x (whole tiles)
    cursor_position,                   \* pointer, in screen tiles
    hovered_tile_coords,               \* Option<Coords>
    selected_tile_coords,              \* Option<Coords>
    selectable_tile_coords,            \* Vec<Coords>
    tower_type_to_place,
    crashed,                           \* a panic has stopped the process
    last_step,                         \* what the last phase step did (observation only)
    chunk_gen                          \* the locals of a running Chunk::generate

vars == << map, phase, interface_mode, turn_counter, distance_traveled,
           crystal_amount, current_animations, end_player_phase_after_animation,
           end_player_phase_right_now, camera_x, cursor_position,
           hovered_tile_coords, selected_tile_coords, selectable_tile_coords,
           tower_type_to_place, crashed, last_step, chunk_gen >>

(***************************************************************************)
(* Bounds of the model.                                                    *)
(***************************************************************************)
\* The player commits end-of-phase actions only while turn_counter < MaxTurn.
MaxTurn == 1
\* The camera is panned only while camera_x < MaxCamera.
MaxCamera == 1

(***************************************************************************)
(* Geometry kernel (coords.rs).                                            *)
(***************************************************************************)
\* Option::None, for every Option<T> of the program.
NONE == [kind |-> "None"]

Coords(x, y) == [x |-> x, y |-> y]

CoordsDelta(dx, dy) == [dx |-> dx, dy |-> dy]

UP == CoordsDelta(0, -1)

RIGHT == CoordsDelta(1, 0)

DOWN == CoordsDelta(0, 1)

LEFT == CoordsDelta(-1, 0)

\* CoordsDelta::iter_4_directions
iter_4_directions == << UP, RIGHT, DOWN, LEFT >>

\* Coords + CoordsDelta
Add(c, d) == Coords(c.x + d.dx, c.y + d.dy)

\* Coords - Coords
Sub(a, b) == CoordsDelta(a.x - b.x, a.y - b.y)

\* -CoordsDelta
Neg(d) == CoordsDelta(d.dx * (-1), d.dy * (-1))

Dimensions(w, h) == [w |-> w, h |-> h]

\* Dimensions::contains
\* A faulty Dimensions::contains, for the sensitivity of C29_GetInBoundsOnly:
\* the column just right of the grid is taken for one of its columns.
ContainsInclusive(dims, c) == 0 <= c.x /\ c.x <= dims.w /\ 0 <= c.y /\ c.y < dims.h

Contains(dims, c) == 0 <= c.x /\ c.x < dims.w /\ 0 <= c.y /\ c.y < dims.h

\* Option::Some
Some(v) == [kind |-> "Some", value |-> v]

\* Dimensions::index_of_coords
index_of_coords(dims, c) ==
    IF Contains(dims, c) THEN Some(c.y * dims.w + c.x) ELSE NONE

\* Dimensions::iter: every coordinate, row by row (y outer, x inner).
DimsIter(dims) ==
    [i \in 1..(dims.w * dims.h) |-> Coords((i - 1) % dims.w, (i - 1) \div dims.w)]

\* Dimensions::iter_left_to_right: every coordinate, column by column.
iter_left_to_right(dims) ==
    [i \in 1..(dims.w * dims.h) |-> Coords((i - 1) \div dims.h, (i - 1) % dims.h)]

\* Grid::of_size_zero
of_size_zero == [dims |-> Dimensions(0, 0), content |-> << >>]

\* Grid::new; the initializer is a function of the coordinates.
GridNew(dims, initializer) ==
    [dims |-> dims,
     content |-> [i \in 1..(dims.w * dims.h) |-> initializer[DimsIter(dims)[i]]]]

\* Grid::get (and get_mut): the cell, or NONE outside the grid.
Get(grid, c) ==
    LET index == index_of_coords(grid.dims, c)
    IN  IF index # NONE /\ index.value + 1 \in DOMAIN grid.content
        THEN grid.content[index.value + 1]
        ELSE NONE

\* A faulty Grid::add_to_right, for the sensitivity of C28_AddToRight: the
\* cells of rhs are put after the cells of self.
AddToRightCellsAfter(self, rhs) ==
    IF self.dims.w = 0 /\ self.dims.h = 0
    THEN rhs
    ELSE [dims |-> Dimensions(self.dims.w + rhs.dims.w, self.dims.h),
          content |-> self.content \o rhs.content]

\* Grid::add_to_right
add_to_right(self, rhs) ==
    IF self.dims.w = 0 /\ self.dims.h = 0
    THEN rhs
    ELSE LET dims == Dimensions(self.dims.w + rhs.dims.w, self.dims.h)
         IN  GridNew(dims,
                     [c \in { DimsIter(dims)[i] : i \in DOMAIN DimsIter(dims) } |->
                         IF c.x < self.dims.w
                         THEN Get(self, c)
                         ELSE Get(rhs, Coords(c.x - self.dims.w, c.y))])

(***************************************************************************)
(* Tiles and objects (main.rs).                                            *)
(***************************************************************************)
Grass == [kind |-> "Grass"]

Water == [kind |-> "Water"]

Path(forward, backward, distance) ==
    [kind |-> "Path", forward |-> forward, backward |-> backward, distance |-> distance]

Caravan == [kind |-> "Caravan"]

Tree == [kind |-> "Tree"]

Rock == [kind |-> "Rock"]

Crystal == [kind |-> "Crystal"]

Enemy(actions, hp, fire) ==
    [kind |-> "Enemy", actions |-> actions, hp |-> hp, fire |-> fire]

Tower(actions, hp, fire, variant) ==
    [kind |-> "Tower", actions |-> actions, hp |-> hp, fire |-> fire, variant |-> variant]

Tile(ground, obj) == [ground |-> ground, obj |-> obj]

\* Tile::has_path, has_water, has_caravan, has_enemy, is_empty_grass
has_path(tile) == tile.ground.kind = "Path"

has_water(tile) == tile.ground.kind = "Water"

has_caravan(tile) == tile.obj.kind = "Caravan"

has_enemy(tile) == tile.obj.kind = "Enemy"

is_empty_grass(tile) == tile.obj = NONE /\ tile.ground.kind = "Grass"

\* Tile::path
path(tile) == IF tile.ground.kind = "Path" THEN tile.ground ELSE NONE

\* map.grid.get_mut(coords).unwrap().obj = obj
SetObj(grid, c, obj) ==
    [grid EXCEPT !.content[index_of_coords(grid.dims, c).value + 1].obj = obj]

\* Tower::initial_hp
initial_hp(variant) ==
    CASE variant = "Basic" -> 3
      [] variant = "Pink" -> 4
      [] variant = "Blue" -> 3

Shot(damages, fire, additional_actions, cascade) ==
    [damages |-> damages, fire |-> fire,
     additional_actions |-> additional_actions, cascade |-> cascade]

CascadeNone == [kind |-> "None"]

Piercing(s) == [kind |-> "Piercing", shot |-> s]

SplitInTwo(s) == [kind |-> "SplitInTwo", shot |-> s]

\* A faulty Tower::shot, for the sensitivity of C22_CascadesEnd: the two side
\* shots of the pink tower pierce once more.
ShotWithPiercingSides(variant) ==
    CASE variant = "Basic" -> Shot(1, 0, 0, CascadeNone)
      [] variant = "Pink" ->
            Shot(-1, 0, 0, SplitInTwo(Shot(3, 0, 0, Piercing(Shot(3, 0, 0, CascadeNone)))))
      [] variant = "Blue" ->
            Shot(0, 0, 2, Piercing(Shot(1, 0, 0, Piercing(Shot(0, 4, 0, CascadeNone)))))

\* A faulty Tower::shot, for the sensitivity of C23_BlueShotStages: the blue
\* shot wounds first and gives the actions second.
ShotBlueWoundsFirst(variant) ==
    CASE variant = "Basic" -> Shot(1, 0, 0, CascadeNone)
      [] variant = "Pink" -> Shot(-1, 0, 0, SplitInTwo(Shot(3, 0, 0, CascadeNone)))
      [] variant = "Blue" ->
            Shot(1, 0, 0, Piercing(Shot(0, 0, 2, Piercing(Shot(0, 4, 0, CascadeNone)))))

\* Tower::shot
shot(variant) ==
    CASE variant = "Basic" -> Shot(1, 0, 0, CascadeNone)
      [] variant = "Pink" -> Shot(-1, 0, 0, SplitInTwo(Shot(3, 0, 0, CascadeNone)))
      [] variant = "Blue" ->
            Shot(0, 0, 2, Piercing(Shot(1, 0, 0, Piercing(Shot(0, 4, 0, CascadeNone)))))

\* A faulty damage, for the sensitivity of C17_ObjectsAreAlive: the object is
\* removed only when its hp falls below 0.
InflictDamageKeepsZeroHp(grid, c, damages) ==
    LET tile == Get(grid, c)
    IN  IF tile = NONE \/ tile.obj.kind \notin {"Enemy", "Tower"}
        THEN grid
        ELSE IF tile.obj.hp - damages < 0
             THEN SetObj(grid, c, NONE)
             ELSE SetObj(grid, c, [tile.obj EXCEPT !.hp = @ - damages])

\* A faulty damage, for the sensitivity of C40_ShotFrame: a positive damage
\* removes the objects that have no hit points.
InflictDamageBreaksObjects(grid, c, damages) ==
    LET tile == Get(grid, c)
    IN  IF tile = NONE \/ tile.obj = NONE THEN grid
        ELSE IF tile.obj.kind \notin {"Enemy", "Tower"}
        THEN IF damages > 0 THEN SetObj(grid, c, NONE) ELSE grid
        ELSE IF tile.obj.hp - damages <= 0
             THEN SetObj(grid, c, NONE)
             ELSE SetObj(grid, c, [tile.obj EXCEPT !.hp = @ - damages])

\* Map::inflict_damage_to_obj_at
inflict_damage_to_obj_at(grid, c, damages) ==
    LET tile == Get(grid, c)
    IN  IF tile = NONE \/ tile.obj.kind \notin {"Enemy", "Tower"}
        THEN grid
        ELSE IF tile.obj.hp - damages <= 0
             THEN SetObj(grid, c, NONE)
             ELSE SetObj(grid, c, [tile.obj EXCEPT !.hp = @ - damages])

\* Map::shot_hits_obj_at
shot_hits_obj_at(grid, c, s) ==
    LET g1 == inflict_damage_to_obj_at(grid, c, s.damages)
        burn(g) ==
            IF s.fire > 0 /\ Get(g, c) # NONE /\ Get(g, c).obj.kind \in {"Enemy", "Tower"}
            THEN SetObj(g, c, [Get(g, c).obj EXCEPT !.fire = @ + s.fire])
            ELSE g
        grant(g) ==
            IF s.additional_actions > 0 /\ Get(g, c) # NONE
               /\ Get(g, c).obj.kind \in {"Enemy", "Tower"}
            THEN SetObj(g, c, [Get(g, c).obj EXCEPT !.actions = @ + s.additional_actions])
            ELSE g
    IN  grant(burn(g1))

\* Map::caravan_coords_and_tile: the coordinates of the first tile (row by
\* row) that holds the caravan, or NONE.
caravan_coords(grid) ==
    LET found == SelectSeq(DimsIter(grid.dims), LAMBDA c : has_caravan(Get(grid, c)))
    IN  IF Len(found) = 0 THEN NONE ELSE found[1]

\* Map::caradan_path_dist (the caller unwraps it)
caradan_path_dist(grid) ==
    IF caravan_coords(grid) = NONE THEN NONE
    ELSE Some(path(Get(grid, caravan_coords(grid))).distance)

\* Map::path_coords: the path tiles from the tile of distance 0 in column 0,
\* following the forward deltas while they lead to a path tile.  NONE stands
\* for its panic (no tile of distance 0 in column 0).
RECURSIVE PathFrom(_, _, _)
PathFrom(grid, head, fuel) ==
    IF fuel = 0 \/ Get(grid, head) = NONE \/ ~has_path(Get(grid, head))
    THEN << >>
    ELSE << head >> \o PathFrom(grid, Add(head, Get(grid, head).ground.forward), fuel - 1)

path_coords(grid) ==
    LET isStart(tile) == has_path(tile) /\ tile.ground.distance = 0
        col0 == SelectSeq(DimsIter(grid.dims), LAMBDA c : c.x = 0)
        left == SelectSeq(col0, LAMBDA c : isStart(Get(grid, c)))
    IN  IF Len(left) = 0 THEN NONE
        ELSE PathFrom(grid, left[1], grid.dims.w * grid.dims.h)

\* Map::rightmost_path_y_and_dist: (y, distance) of the first tile of the last
\* column whose path goes RIGHT; NONE for the empty grid; "panic" when the
\* column has no such tile.
rightmost_path_y_and_dist(grid) ==
    LET isExit(tile) == has_path(tile) /\ tile.ground.forward = RIGHT
        lastCol == SelectSeq(DimsIter(grid.dims), LAMBDA c : c.x = grid.dims.w - 1)
        found == SelectSeq(lastCol, LAMBDA c : isExit(Get(grid, c)))
    IN  IF grid.dims.w = 0 THEN NONE
        ELSE IF Len(found) = 0 THEN [kind |-> "panic"]
        ELSE [kind |-> "Some", y |-> found[1].y,
              distance |-> Get(grid, found[1]).ground.distance]

(***************************************************************************)
(* World generation, scaled down.  Chunk::generate draws a 10x10 chunk at  *)
(* random; the game only reads the result.  Here a chunk is ChunkDims wide *)
(* and high, its path is one route that the path walk of Chunk::generate   *)
(* can draw on a grid of that size, stamped as the walk stamps it, and the *)
(* random content is one of a few draws of the object passes.              *)
(***************************************************************************)
ChunkDims == Dimensions(3, 2)

\* The heads the walk visits, in order: in at row 0, down, along row 1, up,
\* out to the right at row 0.
ChunkRoute == << Coords(0, 0), Coords(0, 1), Coords(1, 1), Coords(2, 1), Coords(2, 0) >>

\* A faulty ground of a chunk, for the sensitivity of C27_PathIsLinked: the
\* distances start again from 0 in each chunk.
ChunkGroundFromZero(path_dist, c) ==
    LET at == { i \in DOMAIN ChunkRoute : ChunkRoute[i] = c }
        i == CHOOSE k \in at : TRUE
        prev == IF i = 1 THEN Coords(-1, ChunkRoute[1].y) ELSE ChunkRoute[i - 1]
        next == IF i = Len(ChunkRoute) THEN Add(c, RIGHT) ELSE ChunkRoute[i + 1]
    IN  IF at = {} THEN Grass
        ELSE Path(Sub(next, c), Sub(prev, c), i - 1)

\* The ground of a chunk: grass, then the path stamped along ChunkRoute with
\* backward = prev_head - cur_head, forward = the direction taken and a
\* distance that grows by one per tile from path_dist.
ChunkGround(path_dist, c) ==
    LET at == { i \in DOMAIN ChunkRoute : ChunkRoute[i] = c }
        i == CHOOSE k \in at : TRUE
        prev == IF i = 1 THEN Coords(-1, ChunkRoute[1].y) ELSE ChunkRoute[i - 1]
        next == IF i = Len(ChunkRoute) THEN Add(c, RIGHT) ELSE ChunkRoute[i + 1]
    IN  IF at = {} THEN Grass
        ELSE Path(Sub(next, c), Sub(prev, c), path_dist + i - 1)

\* The draws of the object passes: what the trees/rocks/crystals passes leave
\* on the grass tile, and the path tiles the enemy pass puts an enemy on.
GrassDraws == { NONE, Crystal }

EnemyDraws == { {}, { Coords(2, 0), Coords(2, 1) } }

\* Chunk::generate: the chunks it can return for the given join.
ChunkGenerate(last_path_y_and_dist) ==
    LET path_dist == IF last_path_y_and_dist = NONE THEN 0
                     ELSE last_path_y_and_dist.distance + 1
        obj(c, grass, enemies) ==
            IF c \in enemies THEN Enemy(0, 8, 0)
            ELSE IF ChunkGround(path_dist, c) = Grass THEN grass
            ELSE NONE
    IN  IF last_path_y_and_dist # NONE /\ last_path_y_and_dist.y # ChunkRoute[1].y
        THEN {}
        ELSE { GridNew(ChunkDims,
                       [c \in { DimsIter(ChunkDims)[i] : i \in DOMAIN DimsIter(ChunkDims) } |->
                           Tile(ChunkGround(path_dist, c), obj(c, grass, enemies))])
               : grass \in GrassDraws, enemies \in EnemyDraws }

\* Map::generate_chunk_on_the_right: the maps it can leave.
generate_chunk_on_the_right(grid) ==
    { add_to_right(grid, chunk) : chunk \in ChunkGenerate(rightmost_path_y_and_dist(grid)) }

(***************************************************************************)
(* Chunk::generate step by step: one turn of the loop that draws the path  *)
(* is one step, on a chunk of WalkW x WalkH tiles (10 x 10 in the source). *)
(***************************************************************************)
WalkW == 5

WalkH == 4

WalkDims == Dimensions(WalkW, WalkH)

\* The locals of Chunk::generate.
GenState(pc, join, grid, prev_head, cur_head, last_direction, westward, dist, turned, u_turns, path_dist) ==
    [pc |-> pc, last_path_y_and_dist |-> join, grid |-> grid,
     prev_head |-> prev_head, cur_head |-> cur_head, last_direction |-> last_direction,
     how_many_times_does_it_go_westward |-> westward,
     distance_in_chunk |-> dist,
     it_turned_last_tile |-> turned,
     u_turn_count |-> u_turns, path_dist |-> path_dist]

\* No call of Chunk::generate is running.
GenIdle ==
    GenState("idle", NONE, of_size_zero, Coords(0, 0), Coords(0, 0), RIGHT, 0, 0, FALSE, 0, 0)

\* grid.get_mut(coords).unwrap().ground = ground
SetGround(grid, c, ground) ==
    [grid EXCEPT !.content[index_of_coords(grid.dims, c).value + 1].ground = ground]

\* A tree on each of the given tiles that is in the grid and is empty grass.
PlantTrees(grid, where) ==
    [grid EXCEPT !.content =
        [i \in DOMAIN grid.content |->
            IF Coords((i - 1) % grid.dims.w, (i - 1) \div grid.dims.w) \in where
               /\ is_empty_grass(grid.content[i])
            THEN [grid.content[i] EXCEPT !.obj = Tree]
            ELSE grid.content[i]]]

\* A faulty 'try_new_path, for the sensitivity of C25_EntryTileContinuesJoin:
\* the first tile takes the distance of the join.
TryNewPathSameDistance(join) ==
    { GenState("walk", join,
               GridNew(WalkDims,
                       [c \in { DimsIter(WalkDims)[i] : i \in DOMAIN DimsIter(WalkDims) } |->
                           Tile(Grass, NONE)]),
               Coords(-1, path_y), Coords(0, path_y), RIGHT, 0, 0, FALSE, 0,
               IF join = NONE THEN 0 ELSE join.distance) :
        path_y \in IF join = NONE THEN 0..(WalkH - 1) ELSE { join.y } }

\* 'try_new_path: a grid of grass and the head on column 0, on the row of
\* the join or on any row when there is none.
TryNewPath(join) ==
    { GenState("walk", join,
               GridNew(WalkDims,
                       [c \in { DimsIter(WalkDims)[i] : i \in DOMAIN DimsIter(WalkDims) } |->
                           Tile(Grass, NONE)]),
               Coords(-1, path_y), Coords(0, path_y), RIGHT, 0, 0, FALSE, 0,
               IF join = NONE THEN 0 ELSE join.distance + 1) :
        path_y \in IF join = NONE THEN 0..(WalkH - 1) ELSE { join.y } }

\* The directions the head can take: onto a tile of the grid without path
\* and without object, or out of the grid to the right.
possible_directions(g) ==
    SelectSeq(iter_4_directions,
              LAMBDA direction :
                  LET tile == Get(g.grid, Add(g.cur_head, direction))
                  IN  \/ (IF tile = NONE THEN FALSE ELSE ~has_path(tile) /\ tile.obj = NONE)
                      \/ Add(g.cur_head, direction).x = g.grid.dims.w)

\* A faulty turn of the loop, for the sensitivity of C24_ChunkPathIsOneWalk:
\* the distance is not incremented.
WalkOneTileKeepsDistance(g, direction, corner_trees, force_turn) ==
    LET backward == Sub(g.prev_head, g.cur_head)
        stamped == SetGround(g.grid, g.cur_head, Path(direction, backward, g.path_dist))
        it_turns_now == ~(\/ (backward.dx = 0 /\ direction.dx = 0)
                          \/ (backward.dy = 0 /\ direction.dy = 0))
    IN  GenState("walk", g.last_path_y_and_dist, stamped, g.cur_head,
                 Add(g.cur_head, direction), direction,
                 g.how_many_times_does_it_go_westward + (IF direction = LEFT THEN 1 ELSE 0),
                 g.distance_in_chunk + 1,
                 it_turns_now,
                 g.u_turn_count + (IF g.it_turned_last_tile /\ it_turns_now THEN 1 ELSE 0),
                 g.path_dist)

\* One turn of the loop for the direction drawn: the tile of the head becomes
\* path, the counters are updated, trees are planted around a tile that
\* follows a turn (on the sides `corner_trees` drawn) and in front of the new
\* head (when `force_turn` is drawn).
WalkOneTile(g, direction, corner_trees, force_turn) ==
    LET backward == Sub(g.prev_head, g.cur_head)
        forward == direction
        stamped == SetGround(g.grid, g.cur_head, Path(forward, backward, g.path_dist))
        it_turns_now == ~(\/ (backward.dx = 0 /\ forward.dx = 0)
                          \/ (backward.dy = 0 /\ forward.dy = 0))
        planted == IF g.it_turned_last_tile
                   THEN PlantTrees(stamped,
                                   { Add(g.cur_head, d) : d \in corner_trees \ {direction} })
                   ELSE stamped
        new_head == Add(g.cur_head, direction)
        forced == IF force_turn
                  THEN PlantTrees(planted, { Add(new_head, direction) })
                  ELSE planted
    IN  GenState("walk", g.last_path_y_and_dist, forced, g.cur_head, new_head, direction,
                 g.how_many_times_does_it_go_westward + (IF direction = LEFT THEN 1 ELSE 0),
                 g.distance_in_chunk + 1,
                 it_turns_now,
                 g.u_turn_count + (IF g.it_turned_last_tile /\ it_turns_now THEN 1 ELSE 0),
                 g.path_dist + 1)

\* A faulty test after the loop, for the sensitivity of C26_ChunkCriteria:
\* two U-turns are accepted.
CandidateRejectedAfterThreeUTurns(g) ==
    \/ g.how_many_times_does_it_go_westward < 2
    \/ ~(14 <= g.distance_in_chunk /\ g.distance_in_chunk < 30)
    \/ g.u_turn_count >= 3

\* The test after the loop that sends the candidate back to 'try_new_path.
CandidateRejected(g) ==
    \/ g.how_many_times_does_it_go_westward < 2
    \/ ~(14 <= g.distance_in_chunk /\ g.distance_in_chunk < 30)
    \/ g.u_turn_count >= 2

\* The trees planted to help the walk are removed.
CleanUp(grid) ==
    [grid EXCEPT !.content = [i \in DOMAIN grid.content |->
                                 [grid.content[i] EXCEPT !.obj = NONE]]]

\* What follows the turn of the loop that left the locals `n`: the loop goes
\* on, or the head is out to the right and the candidate is tried again or
\* kept.
AfterTile(n) ==
    IF n.cur_head.x # n.grid.dims.w THEN { n }
    ELSE IF CandidateRejected(n) THEN TryNewPath(n.last_path_y_and_dist)
    ELSE { [n EXCEPT !.pc = "passes", !.grid = CleanUp(n.grid)] }

\* The draws of the trees of one turn of the loop: the sides of a tile that
\* follows a turn that get one (each with probability 0.95) and whether the
\* tile in front of the new head gets one (probability 0.3 or 0.1).  Either
\* no draw plants a tree, or all of them do.
TreeDraws ==
    { [corner_trees |-> {}, force_turn |-> FALSE],
      [corner_trees |-> { UP, RIGHT, DOWN, LEFT }, force_turn |-> TRUE] }

\* The states one turn of the loop can leave.  The direction is
\* last_direction with probability 0.05 when it is possible and any possible
\* one otherwise: any possible one.
WalkResults(g) ==
    LET possible == possible_directions(g)
    IN  IF Len(possible) = 0
        THEN TryNewPath(g.last_path_y_and_dist)
        ELSE UNION { AfterTile(WalkOneTile(g, possible[i], trees.corner_trees,
                                           trees.force_turn)) :
                       i \in DOMAIN possible, trees \in TreeDraws }

\* One blob of the water pass, from the tile drawn: `dirs` are the directions
\* drawn while the draw that stops the blob has not come.
RECURSIVE WaterBlob(_, _, _)
WaterBlob(grid, coords, dirs) ==
    LET tile == Get(grid, coords)
        wet == SetGround(grid, coords, Water)
        other == Get(wet, Add(coords, Head(dirs)))
    IN  IF has_path(tile) \/ has_water(tile) \/ dirs = << >>
        THEN grid
        ELSE WaterBlob(wet,
                       IF (IF other = NONE THEN FALSE ELSE ~has_path(other))
                       THEN Add(coords, Head(dirs))
                       ELSE coords,
                       Tail(dirs))

\* while rand_range(0.0..1.0) < 0.4 { one blob }
RECURSIVE WaterPass(_, _)
WaterPass(grid, blobs) ==
    IF blobs = << >> THEN grid
    ELSE WaterPass(WaterBlob(grid, Head(blobs).coords, Head(blobs).dirs), Tail(blobs))

\* The passes of the trees, rocks and crystals: the object on each of the
\* tiles drawn that is empty grass.
ObjPass(grid, where, obj) ==
    [grid EXCEPT !.content =
        [i \in DOMAIN grid.content |->
            IF Coords((i - 1) % grid.dims.w, (i - 1) \div grid.dims.w) \in where
               /\ is_empty_grass(grid.content[i])
            THEN [grid.content[i] EXCEPT !.obj = obj]
            ELSE grid.content[i]]]

\* The pass of the enemies: an enemy on each of the tiles drawn that has path.
EnemyPass(grid, where) ==
    [grid EXCEPT !.content =
        [i \in DOMAIN grid.content |->
            IF Coords((i - 1) % grid.dims.w, (i - 1) \div grid.dims.w) \in where
               /\ has_path(grid.content[i])
            THEN [grid.content[i] EXCEPT !.obj = Enemy(0, 8, 0)]
            ELSE grid.content[i]]]

\* The draws of the passes: the blobs of water, and for each other pass the
\* tiles whose draw is under the probability of the pass (none or all).
WaterDraws ==
    { << >> } \cup
    { << [coords |-> c, dirs |-> ds] >> :
        c \in { Coords(0, 0), Coords(2, 1), Coords(WalkW - 1, WalkH - 1) },
        ds \in { << RIGHT >>, << DOWN, RIGHT, UP >> } }

TileDraws ==
    { {}, { DimsIter(WalkDims)[i] : i \in DOMAIN DimsIter(WalkDims) } }

\* The chunks the passes can leave of the grid the walk returned.
PassesResults(g) ==
    { [g EXCEPT !.pc = "returned",
                !.grid = EnemyPass(ObjPass(ObjPass(ObjPass(WaterPass(g.grid, water),
                                                           trees, Tree),
                                                   rocks, Rock),
                                           crystals, Crystal),
                                   enemies)] :
        water \in WaterDraws, trees \in TileDraws, rocks \in TileDraws,
        crystals \in TileDraws, enemies \in TileDraws }

(***************************************************************************)
(* The state of the event loop as one record, so that a handler is an      *)
(* operator from the state before it to the states it can leave.           *)
(***************************************************************************)
Cur ==
    [map |-> map, phase |-> phase, interface_mode |-> interface_mode,
     turn_counter |-> turn_counter, distance_traveled |-> distance_traveled,
     crystal_amount |-> crystal_amount, current_animations |-> current_animations,
     end_player_phase_after_animation |-> end_player_phase_after_animation,
     end_player_phase_right_now |-> end_player_phase_right_now,
     camera_x |-> camera_x, cursor_position |-> cursor_position,
     hovered_tile_coords |-> hovered_tile_coords,
     selected_tile_coords |-> selected_tile_coords,
     selectable_tile_coords |-> selectable_tile_coords,
     tower_type_to_place |-> tower_type_to_place, crashed |-> crashed,
     last_step |-> last_step]

\* The element of a singleton.  A value bound as the element of a singleton is
\* computed once, where a LET definition stands for an expression that is
\* computed again wherever it is used.
The(S) == CHOOSE x \in S : TRUE

\* A panic (a failed unwrap, an explicit panic!): the process stops.
Panic(s) == [s EXCEPT !.crashed = TRUE]

\* The observation of a phase step of the tick: which branch it took, on which
\* tile, how it ended, and the tiles whose object burnt down in it.  No
\* handler reads it.
Step(kind, at, result, burnt) ==
    [kind |-> kind, at |-> at, result |-> result, burnt |-> burnt]

Did(s, kind, at, result, burnt) ==
    [s EXCEPT !.last_step = Step(kind, at, result, burnt)]

\* The tiles that hold an object in `before` and none in `after`.
Emptied(before, after) ==
    { c \in { Coords(x, y) : x \in 0..(before.dims.w - 1), y \in 0..(before.dims.h - 1) } :
        Get(before, c).obj # NONE /\ Get(after, c).obj = NONE }

Normal == [kind |-> "Normal"]

MovingCaravanChoosingDst == [kind |-> "MovingCaravanChoosingDst"]

MovingCaravanAnimation(remaining_moves) ==
    [kind |-> "MovingCaravanAnimation", remaining_moves |-> remaining_moves]

\* AnimationAction
Move(obj, from, to) == [kind |-> "Move", obj |-> obj, from |-> from, to |-> to]

CameraMoveX(from, to) == [kind |-> "CameraMoveX", from |-> from, to |-> to]

Appear(obj, to) == [kind |-> "Appear", obj |-> obj, to |-> to]

Disappear(obj, from) == [kind |-> "Disappear", obj |-> obj, from |-> from]

Shoot(from, direction, s) ==
    [kind |-> "Shoot", from |-> from, direction |-> direction, shot |-> s]

\* MapDrawingConfig::tile_side (zoom 4, 16 pixels per sprite)
TileSide == 64

\* renderer.dims().w: the width of the window, in pixels.
RendererW == 64

\* MapDrawingConfig::screen_coords_to_tile_coords, with the pointer in screen
\* tiles and the camera a whole number of tiles to the right.
screen_coords_to_tile_coords(cam, screen_coords) ==
    Coords(screen_coords.x + cam, screen_coords.y)

\* `*actions += 1` for every object of the given kind, over map.grid.dims.iter()
\* A faulty grant, for the sensitivity of C4_PhaseEntryGrants: every enemy and
\* every tower gets the action, whatever the phase entered.
GrantActionsToAll(grid, kind) ==
    [grid EXCEPT !.content =
        [i \in DOMAIN grid.content |->
            IF grid.content[i].obj.kind \in {"Enemy", "Tower"}
            THEN [grid.content[i] EXCEPT !.obj.actions = @ + 1]
            ELSE grid.content[i]]]

\* A faulty grant, for the sensitivity of C37_TowerActions: a tower gets two
\* actions.
GrantActionsTwoToTowers(grid, kind) ==
    [grid EXCEPT !.content =
        [i \in DOMAIN grid.content |->
            IF grid.content[i].obj.kind = kind
            THEN [grid.content[i] EXCEPT
                    !.obj.actions = @ + (IF kind = "Tower" THEN 2 ELSE 1)]
            ELSE grid.content[i]]]

GrantActions(grid, kind) ==
    [grid EXCEPT !.content =
        [i \in DOMAIN grid.content |->
            IF grid.content[i].obj.kind = kind
            THEN [grid.content[i] EXCEPT !.obj.actions = @ + 1]
            ELSE grid.content[i]]]

\* A faulty end of the player phase, for the sensitivity of
\* C1_PhaseTransitions: the enemy phase is skipped.
EndPlayerPhaseSkipsEnemies(s) ==
    [s EXCEPT !.end_player_phase_after_animation = FALSE,
              !.end_player_phase_right_now = FALSE,
              !.selectable_tile_coords = << >>,
              !.phase = "Tower",
              !.map = GrantActions(s.map, "Tower")]

\* The end of the player phase: the flags are reset, the phase becomes Enemy
\* and every enemy gets one action.
EndPlayerPhase(s) ==
    [s EXCEPT !.end_player_phase_after_animation = FALSE,
              !.end_player_phase_right_now = FALSE,
              !.selectable_tile_coords = << >>,
              !.phase = "Enemy",
              !.map = GrantActions(s.map, "Enemy")]

\* The while loops that call generate_chunk_on_the_right until the map reaches
\* past the right of the screen (one tile beyond the camera): the maps they
\* can leave; {} stands for the panic of rightmost_path_y_and_dist.
\* A faulty extension of the map, for the sensitivity of
\* C36_SpawnColumnInside: the map is extended to the right edge of the screen
\* at the camera, not one tile beyond it.
RECURSIVE GenerateChunksToTheScreen(_, _)
GenerateChunksToTheScreen(grid, cam) ==
    IF grid.dims.w * TileSide <= cam * TileSide + RendererW + 1
    THEN IF rightmost_path_y_and_dist(grid) = [kind |-> "panic"] THEN {}
         ELSE UNION { GenerateChunksToTheScreen(g, cam) :
                        g \in generate_chunk_on_the_right(grid) }
    ELSE { grid }

RECURSIVE GenerateChunks(_, _)
GenerateChunks(grid, cam) ==
    IF grid.dims.w * TileSide <= (cam + 1) * TileSide + RendererW + 1
    THEN IF rightmost_path_y_and_dist(grid) = [kind |-> "panic"] THEN {}
         ELSE UNION { GenerateChunks(g, cam) : g \in generate_chunk_on_the_right(grid) }
    ELSE { grid }

\* A faulty caravan step, for the sensitivity of C16_DistanceTraveled: the
\* distance traveled is the distance of the tile the caravan leaves.
MovingCaravanStepKeepsDistance(s) ==
    IF s.interface_mode.kind = "MovingCaravanAnimation" /\ s.current_animations = << >>
    THEN IF s.interface_mode.remaining_moves <= 0
         THEN [s EXCEPT !.interface_mode = Normal]
         ELSE LET caravan == caravan_coords(s.map)
                  ground == path(Get(s.map, caravan))
              IN  IF caravan = NONE THEN Panic(s)
                  ELSE IF ground = NONE THEN Panic(s)
                  ELSE [s EXCEPT
                          !.current_animations =
                              Append(@, Move(Get(s.map, caravan).obj, caravan,
                                             Add(caravan, ground.forward))),
                          !.map = SetObj(s.map, caravan, NONE),
                          !.distance_traveled = ground.distance,
                          !.interface_mode =
                              MovingCaravanAnimation(s.interface_mode.remaining_moves - 1),
                          !.end_player_phase_after_animation =
                              IF s.interface_mode.remaining_moves = 1 THEN TRUE ELSE @]
    ELSE s

\* A faulty caravan step, for the sensitivity of C12_PlayerPhaseEnds: every
\* step of a caravan move of several tiles asks for the end of the phase.
MovingCaravanStepAlwaysEnds(s) ==
    IF s.interface_mode.kind = "MovingCaravanAnimation" /\ s.current_animations = << >>
    THEN IF s.interface_mode.remaining_moves <= 0
         THEN [s EXCEPT !.interface_mode = Normal]
         ELSE LET caravan == caravan_coords(s.map)
                  ground == path(Get(s.map, caravan))
              IN  IF caravan = NONE THEN Panic(s)
                  ELSE IF ground = NONE THEN Panic(s)
                  ELSE [s EXCEPT
                          !.current_animations =
                              Append(@, Move(Get(s.map, caravan).obj, caravan,
                                             Add(caravan, ground.forward))),
                          !.map = SetObj(s.map, caravan, NONE),
                          !.distance_traveled = ground.distance + 1,
                          !.interface_mode =
                              MovingCaravanAnimation(s.interface_mode.remaining_moves - 1),
                          !.end_player_phase_after_animation = TRUE]
    ELSE s

\* The caravan step of a multi-tile caravan move, at the start of a tick.
MovingCaravanStep(s) ==
    IF s.interface_mode.kind = "MovingCaravanAnimation" /\ s.current_animations = << >>
    THEN IF s.interface_mode.remaining_moves <= 0
         THEN [s EXCEPT !.interface_mode = Normal]
         ELSE LET caravan == caravan_coords(s.map)
                  ground == path(Get(s.map, caravan))
              IN  IF caravan = NONE THEN Panic(s)
                  ELSE IF ground = NONE THEN Panic(s)
                  ELSE [s EXCEPT
                          !.current_animations =
                              Append(@, Move(Get(s.map, caravan).obj, caravan,
                                             Add(caravan, ground.forward))),
                          !.map = SetObj(s.map, caravan, NONE),
                          !.distance_traveled = ground.distance + 1,
                          !.interface_mode =
                              MovingCaravanAnimation(s.interface_mode.remaining_moves - 1),
                          !.end_player_phase_after_animation =
                              IF s.interface_mode.remaining_moves = 1 THEN TRUE ELSE @]
    ELSE s

\* Three faulty successions of shots.  For the sensitivity of
\* C18_PiercingShot: the piercing shot goes on with its own payload.
ShootSuccessorsPierceSameShot(anim, to, occupied) ==
    IF occupied
    THEN CASE anim.shot.cascade.kind = "None" -> << >>
           [] anim.shot.cascade.kind = "Piercing" ->
                << Shoot(to, anim.direction, anim.shot) >>
           [] anim.shot.cascade.kind = "SplitInTwo" ->
                LET one_side == CoordsDelta(anim.direction.dy, anim.direction.dx)
                IN  << Shoot(to, one_side, anim.shot.cascade.shot),
                       Shoot(to, Neg(one_side), anim.shot.cascade.shot) >>
    ELSE << Shoot(to, anim.direction, anim.shot) >>

\* For the sensitivity of C19_SplitShot: the second side shot leaves in the
\* direction of the first one, turned a quarter, which for a vertical shot is
\* the direction it came from.
ShootSuccessorsSplitQuarterTurn(anim, to, occupied) ==
    IF occupied
    THEN CASE anim.shot.cascade.kind = "None" -> << >>
           [] anim.shot.cascade.kind = "Piercing" ->
                << Shoot(to, anim.direction, anim.shot.cascade.shot) >>
           [] anim.shot.cascade.kind = "SplitInTwo" ->
                LET one_side == CoordsDelta(anim.direction.dy, anim.direction.dx)
                IN  << Shoot(to, one_side, anim.shot.cascade.shot),
                       Shoot(to, CoordsDelta(-one_side.dy, one_side.dx),
                             anim.shot.cascade.shot) >>
    ELSE << Shoot(to, anim.direction, anim.shot) >>

\* For the sensitivity of C20_ShotOverFreeTile: a shot over a free tile stops
\* there.
ShootSuccessorsStopOnFreeTile(anim, to, occupied) ==
    IF occupied
    THEN CASE anim.shot.cascade.kind = "None" -> << >>
           [] anim.shot.cascade.kind = "Piercing" ->
                << Shoot(to, anim.direction, anim.shot.cascade.shot) >>
           [] anim.shot.cascade.kind = "SplitInTwo" ->
                LET one_side == CoordsDelta(anim.direction.dy, anim.direction.dx)
                IN  << Shoot(to, one_side, anim.shot.cascade.shot),
                       Shoot(to, Neg(one_side), anim.shot.cascade.shot) >>
    ELSE << >>

\* The successors of a Shoot that finishes on the tile `to`.
ShootSuccessors(anim, to, occupied) ==
    IF occupied
    THEN CASE anim.shot.cascade.kind = "None" -> << >>
           [] anim.shot.cascade.kind = "Piercing" ->
                << Shoot(to, anim.direction, anim.shot.cascade.shot) >>
           [] anim.shot.cascade.kind = "SplitInTwo" ->
                LET one_side == CoordsDelta(anim.direction.dy, anim.direction.dx)
                IN  << Shoot(to, one_side, anim.shot.cascade.shot),
                       Shoot(to, Neg(one_side), anim.shot.cascade.shot) >>
    ELSE << Shoot(to, anim.direction, anim.shot) >>

\* A faulty end of an animation, for the sensitivity of C33_EnemyReplaces: a
\* Move that ends on a tile holding an object leaves that object in place.
FinishAnimationKeepsOccupant(anim, st) ==
    LET s == st.s
        applied ==
            CASE anim.kind \in {"Move", "Appear"} ->
                    IF Get(s.map, anim.to) = NONE THEN [st EXCEPT !.s = Panic(s)]
                    ELSE IF Get(s.map, anim.to).obj # NONE THEN st
                    ELSE [st EXCEPT !.s.map = SetObj(s.map, anim.to, anim.obj)]
              [] anim.kind = "CameraMoveX" -> [st EXCEPT !.s.camera_x = anim.to]
              [] anim.kind = "Disappear" -> st
              [] anim.kind = "Shoot" ->
                    LET to == Add(anim.from, anim.direction)
                    IN  IF Contains(s.map.dims, to)
                        THEN IF Get(s.map, to).obj # NONE
                             THEN [st EXCEPT
                                     !.s.map = shot_hits_obj_at(s.map, to, anim.shot),
                                     !.new_anims = @ \o ShootSuccessors(anim, to, TRUE)]
                             ELSE [st EXCEPT
                                     !.new_anims = @ \o ShootSuccessors(anim, to, FALSE)]
                        ELSE st
    IN  The({ IF a.s.crashed THEN a
              ELSE IF a.s.end_player_phase_after_animation
              THEN [a EXCEPT !.s = EndPlayerPhase(a.s)]
              ELSE a : a \in { applied } })

\* An animation found done: its terminal effect, then the end of the player
\* phase if one is due.  new_anims collects the successors.
FinishAnimation(anim, st) ==
    LET s == st.s
        applied ==
            CASE anim.kind \in {"Move", "Appear"} ->
                    IF Get(s.map, anim.to) = NONE THEN [st EXCEPT !.s = Panic(s)]
                    ELSE [st EXCEPT !.s.map = SetObj(s.map, anim.to, anim.obj)]
              [] anim.kind = "CameraMoveX" -> [st EXCEPT !.s.camera_x = anim.to]
              [] anim.kind = "Disappear" -> st
              [] anim.kind = "Shoot" ->
                    LET to == Add(anim.from, anim.direction)
                    IN  IF Contains(s.map.dims, to)
                        THEN IF Get(s.map, to).obj # NONE
                             THEN [st EXCEPT
                                     !.s.map = shot_hits_obj_at(s.map, to, anim.shot),
                                     !.new_anims = @ \o ShootSuccessors(anim, to, TRUE)]
                             ELSE [st EXCEPT
                                     !.new_anims = @ \o ShootSuccessors(anim, to, FALSE)]
                        ELSE st
    IN  The({ IF a.s.crashed THEN a
              ELSE IF a.s.end_player_phase_after_animation
              THEN [a EXCEPT !.s = EndPlayerPhase(a.s)]
              ELSE a : a \in { applied } })

\* An animation still in progress: only the camera pan touches the state (the
\* hovered tile is recomputed under the moving map; `shift` says whether the
\* pointer is already over the next tile).
ContinueAnimation(anim, shift, st) ==
    IF anim.kind = "CameraMoveX"
    THEN LET coords == screen_coords_to_tile_coords(anim.from + shift, st.s.cursor_position)
         IN  [st EXCEPT !.s.hovered_tile_coords =
                 IF Contains(st.s.map.dims, coords) THEN coords ELSE NONE]
    ELSE st

\* The loop over current_animations of one tick; `done` holds the indices of
\* the animations whose time is over.
RECURSIVE RunAnimations(_, _, _, _, _)
RunAnimations(anims, i, done, shift, st) ==
    IF i > Len(anims) \/ st.s.crashed THEN st
    ELSE The({ RunAnimations(anims, i + 1, done, shift, next) :
               next \in { IF i \in done THEN FinishAnimation(anims[i], st)
                          ELSE ContinueAnimation(anims[i], shift, st) } })

\* A faulty animation branch, for the sensitivity of C21_FinalizedOnce: the
\* finished animations stay in the list.
AnimationsTickKeepsFinished(s, done, shift) ==
    LET st == RunAnimations(s.current_animations, 1, done, shift,
                            [s |-> s, new_anims |-> << >>])
    IN  IF st.s.crashed THEN Panic(s)
        ELSE [st.s EXCEPT !.current_animations = s.current_animations \o st.new_anims]

\* The animation branch of a tick: the finished animations are removed and
\* the successors appended.
AnimationsTick(s, done, shift) ==
    LET st == RunAnimations(s.current_animations, 1, done, shift,
                            [s |-> s, new_anims |-> << >>])
        kept == SelectSeq([i \in DOMAIN s.current_animations |->
                              [index |-> i, anim |-> s.current_animations[i]]],
                          LAMBDA e : e.index \notin done)
    IN  IF st.s.crashed THEN Panic(s)
        ELSE [st.s EXCEPT !.current_animations =
                 [i \in DOMAIN kept |-> kept[i].anim] \o st.new_anims]

(***************************************************************************)
(* The enemy phase.                                                        *)
(***************************************************************************)
\* The search for the enemy that plays: among the enemies with an action left
\* that stand on a path, the first one (row by row) of the smallest distance.
\* Two faulty selections of the enemy that plays.  For the sensitivity of
\* C2_PhaseExitGuards: an enemy is ready only with two actions or more.
MinPathDistNeedsTwoActions(grid) ==
    LET ready(tile) == has_enemy(tile) /\ tile.obj.actions >= 2 /\ has_path(tile)
        found == SelectSeq(DimsIter(grid.dims), LAMBDA c : ready(Get(grid, c)))
        dist(c) == Get(grid, c).ground.distance
        best == { i \in DOMAIN found :
                    /\ \A j \in DOMAIN found : dist(found[i]) <= dist(found[j])
                    /\ \A j \in 1..(i - 1) : dist(found[j]) > dist(found[i]) }
    IN  IF Len(found) = 0 THEN NONE ELSE found[CHOOSE i \in best : TRUE]

\* For the sensitivity of C5_ClosestEnemyFirst: the first ready enemy met, row
\* by row, is taken whatever its distance.
FirstReadyEnemy(grid) ==
    LET ready(tile) == has_enemy(tile) /\ tile.obj.actions >= 1 /\ has_path(tile)
        found == SelectSeq(DimsIter(grid.dims), LAMBDA c : ready(Get(grid, c)))
    IN  IF Len(found) = 0 THEN NONE ELSE found[1]

min_path_dist_and_coords(grid) ==
    LET ready(tile) == has_enemy(tile) /\ tile.obj.actions >= 1 /\ has_path(tile)
        found == SelectSeq(DimsIter(grid.dims), LAMBDA c : ready(Get(grid, c)))
        dist(c) == Get(grid, c).ground.distance
        best == { i \in DOMAIN found :
                    /\ \A j \in DOMAIN found : dist(found[i]) <= dist(found[j])
                    /\ \A j \in 1..(i - 1) : dist(found[j]) > dist(found[i]) }
    IN  IF Len(found) = 0 THEN NONE ELSE found[CHOOSE i \in best : TRUE]

\* A faulty fire effect, for the sensitivity of C7_FireBeforeAction: the damage
\* is inflicted but the fire counter is not consumed.
FireEffectKeepsBurning(grid, c, kind) ==
    LET obj == Get(grid, c).obj
    IN  IF obj.kind = kind /\ obj.actions >= 1 /\ obj.fire >= 1
        THEN inflict_damage_to_obj_at(grid, c, 1)
        ELSE grid

\* The fire effect on the object at `c` before it plays: one fire counter is
\* consumed and one damage inflicted, when it has an action and burns.
FireEffect(grid, c, kind) ==
    LET obj == Get(grid, c).obj
    IN  IF obj.kind = kind /\ obj.actions >= 1 /\ obj.fire >= 1
        THEN inflict_damage_to_obj_at(SetObj(grid, c, [obj EXCEPT !.fire = @ - 1]), c, 1)
        ELSE grid

\* A faulty destination test, for the sensitivity of C6_EnemyStep: any tile of
\* the grid will do.
CanStepOnAnyTile(dst_tile) == dst_tile # NONE

\* Whether an enemy may step on the tile: it exists and is empty or holds the
\* caravan or a tower.
CanStepOn(dst_tile) ==
    dst_tile # NONE /\ (dst_tile.obj = NONE \/ dst_tile.obj.kind \in {"Caravan", "Tower"})

\* A faulty enemy step, for the sensitivity of C3_PhasesEnd: the action is
\* consumed only when the enemy moves.
EnemyPlaysKeepsActionWhenBlocked(s, c) ==
    LET after(burnt) ==
            LET tile == Get(burnt, c)
                played == [tile.obj EXCEPT !.actions = @ - 1]
                dst_coords == Add(c, tile.ground.backward)
            IN  IF tile.obj.kind = "Enemy" /\ tile.obj.actions >= 1
                THEN IF CanStepOn(Get(burnt, dst_coords))
                     THEN Did([s EXCEPT !.map = SetObj(burnt, c, NONE),
                                        !.current_animations =
                                            Append(@, Move(played, c, dst_coords))],
                              "Enemy", c, "moved", {})
                     ELSE Did([s EXCEPT !.map = burnt], "Enemy", c, "blocked", {})
                ELSE Did([s EXCEPT !.map = burnt], "Enemy", c, "burnt", {c})
    IN  The({ after(burnt) : burnt \in { FireEffect(s.map, c, "Enemy") } })

\* A faulty enemy step, for the sensitivity of C35_OnThePath: the enemy
\* leaves for the tile opposite to the forward delta of its tile.
EnemyPlaysAgainstForward(s, c) ==
    LET after(burnt) ==
            LET tile == Get(burnt, c)
                played == [tile.obj EXCEPT !.actions = @ - 1]
                dst_coords == Add(c, Neg(tile.ground.forward))
            IN  IF tile.obj.kind = "Enemy" /\ tile.obj.actions >= 1
                THEN IF path(tile) = NONE THEN Panic(s)
                     ELSE IF CanStepOn(Get(burnt, dst_coords))
                     THEN Did([s EXCEPT !.map = SetObj(burnt, c, NONE),
                                        !.current_animations =
                                            Append(@, Move(played, c, dst_coords))],
                              "Enemy", c, "moved", {})
                     ELSE Did([s EXCEPT !.map = SetObj(burnt, c, played)],
                              "Enemy", c, "blocked", {})
                ELSE Did([s EXCEPT !.map = burnt], "Enemy", c, "burnt", {c})
    IN  The({ after(burnt) : burnt \in { FireEffect(s.map, c, "Enemy") } })

\* The enemy at `c` plays: fire first, then an action is consumed and the
\* enemy leaves for the tile behind it when it may step there.
EnemyPlays(s, c) ==
    LET after(burnt) ==
            LET tile == Get(burnt, c)
                played == [tile.obj EXCEPT !.actions = @ - 1]
                dst_coords == Add(c, tile.ground.backward)
            IN  IF tile.obj.kind = "Enemy" /\ tile.obj.actions >= 1
                THEN IF path(tile) = NONE THEN Panic(s)
                     ELSE IF CanStepOn(Get(burnt, dst_coords))
                     THEN Did([s EXCEPT !.map = SetObj(burnt, c, NONE),
                                        !.current_animations =
                                            Append(@, Move(played, c, dst_coords))],
                              "Enemy", c, "moved", {})
                     ELSE Did([s EXCEPT !.map = SetObj(burnt, c, played)],
                              "Enemy", c, "blocked", {})
                ELSE Did([s EXCEPT !.map = burnt], "Enemy", c, "burnt", {c})
    IN  The({ after(burnt) : burnt \in { FireEffect(s.map, c, "Enemy") } })

\* The column of the enemy spawn.
SpawnColumn(cam) == (cam + 1) + (RendererW \div TileSide)

\* The hit points a spawned enemy can start with.
SpawnHp == { 8, 10, 12 }

\* A faulty end of the enemy phase, for the sensitivity of C30_EnemySpawn:
\* the enemy is spawned on the tile whatever it holds.
EndEnemyPhaseSpawnsOnObjects(s) ==
    LET right == SpawnColumn(s.camera_x)
        spawnAt(g) ==
            LET col == SelectSeq(DimsIter(g.dims), LAMBDA c : c.x = right)
                found == SelectSeq(col, LAMBDA c : has_path(Get(g, c)))
            IN  IF Len(found) = 0 THEN NONE ELSE found[1]
        spawned(g) ==
            { g } \cup { SetObj(g, spawnAt(g), Enemy(0, hp, 0)) : hp \in SpawnHp }
        next(g) == Did([s EXCEPT !.phase = "Tower", !.map = GrantActions(g, "Tower")],
                       "EndEnemyPhase", spawnAt(g), "tower", {})
        ended(grown) ==
            IF grown = {} THEN { Panic(s) }
            ELSE UNION { IF spawnAt(g) = NONE THEN { Panic(s) }
                         ELSE { next(g2) : g2 \in spawned(g) } : g \in grown }
    IN  UNION { ended(grown) : grown \in { GenerateChunks(s.map, s.camera_x) } }

\* No enemy is left to play: the map is extended if needed, an enemy may
\* appear on the first path tile of the spawn column, the phase becomes Tower
\* and every tower gets one action.
EndEnemyPhase(s) ==
    LET right == SpawnColumn(s.camera_x)
        spawnAt(g) ==
            LET col == SelectSeq(DimsIter(g.dims), LAMBDA c : c.x = right)
                found == SelectSeq(col, LAMBDA c : has_path(Get(g, c)))
            IN  IF Len(found) = 0 THEN NONE ELSE found[1]
        spawned(g) ==
            { g } \cup
            IF Get(g, spawnAt(g)).obj = NONE
            THEN { SetObj(g, spawnAt(g), Enemy(0, hp, 0)) : hp \in SpawnHp }
            ELSE {}
        next(g) == Did([s EXCEPT !.phase = "Tower", !.map = GrantActions(g, "Tower")],
                       "EndEnemyPhase", spawnAt(g), "tower", {})
        ended(grown) ==
            IF grown = {} THEN { Panic(s) }
            ELSE UNION { IF spawnAt(g) = NONE THEN { Panic(s) }
                         ELSE { next(g2) : g2 \in spawned(g) } : g \in grown }
    IN  UNION { ended(grown) : grown \in { GenerateChunks(s.map, s.camera_x) } }

(***************************************************************************)
(* The tower phase.                                                        *)
(***************************************************************************)
\* The first tile from `view_coords` on, along `direction`, that is outside
\* the grid (NONE) or holds an object.
RECURSIVE FirstOccupied(_, _, _)
FirstOccupied(grid, view_coords, direction) ==
    IF Get(grid, view_coords) = NONE THEN NONE
    ELSE IF Get(grid, view_coords).obj # NONE THEN view_coords
    ELSE FirstOccupied(grid, Add(view_coords, direction), direction)

\* A faulty target search, for the sensitivity of C8_TowerTarget: the first
\* direction in which an enemy is seen is kept, whatever the distances.
RECURSIVE FirstEnemySeen(_, _, _, _)
FirstEnemySeen(grid, c, i, best) ==
    IF i > Len(iter_4_directions) THEN best
    ELSE LET direction == iter_4_directions[i]
             seen == FirstOccupied(grid, Add(c, direction), direction)
             tile == Get(grid, seen)
         IN  FirstEnemySeen(grid, c, i + 1,
                IF seen # NONE /\ has_enemy(tile) /\ has_path(tile) /\ best = NONE
                THEN [kind |-> "Some", distance |-> tile.ground.distance,
                      direction |-> direction]
                ELSE best)

\* The target search of the tower at `c`, over the directions from the i-th
\* on, with `best` the (distance, direction) kept so far: a direction is kept
\* when the first object seen that way is an enemy on a path whose distance is
\* smaller than the one kept.
RECURSIVE min_path_dist_and_dir(_, _, _, _)
min_path_dist_and_dir(grid, c, i, best) ==
    IF i > Len(iter_4_directions) THEN best
    ELSE LET direction == iter_4_directions[i]
             seen == FirstOccupied(grid, Add(c, direction), direction)
             tile == Get(grid, seen)
         IN  The({ min_path_dist_and_dir(grid, c, i + 1, kept) :
                   kept \in { IF seen # NONE /\ has_enemy(tile) /\ has_path(tile)
                                 /\ (best = NONE \/ tile.ground.distance < best.distance)
                              THEN [kind |-> "Some", distance |-> tile.ground.distance,
                                    direction |-> direction]
                              ELSE best } })

\* The tower at `c` plays: an action is consumed, and it shoots towards the
\* target found, if any.
TowerPlays(s, grid, c) ==
    LET tower == Get(grid, c).obj
        played == SetObj(grid, c, [tower EXCEPT !.actions = @ - 1])
    IN  The({ IF target # NONE
              THEN Did([s EXCEPT !.map = played,
                                 !.current_animations =
                                     Append(@, Shoot(c, target.direction, shot(tower.variant)))],
                       "Tower", c, "shot", Emptied(s.map, grid))
              ELSE Did([s EXCEPT !.map = played], "Tower", c, "no target",
                       Emptied(s.map, grid)) :
              target \in { min_path_dist_and_dir(grid, c, 1, NONE) } })

\* A faulty end of the tower phase, for the sensitivity of C10_TowerPhaseExit:
\* the caravan is not looked for and the next turn always starts.
EndTowerPhaseNoCaravanCheck(s, grid) ==
    Did([s EXCEPT !.map = grid, !.phase = "Player", !.turn_counter = @ + 1],
        "EndTowerPhase", NONE, "player", Emptied(s.map, grid))

\* The tower loop has drained: the game is over when the caravan is on no
\* tile, else the next turn of the player starts.
EndTowerPhase(s, grid) ==
    IF Len(SelectSeq(DimsIter(grid.dims), LAMBDA c : has_caravan(Get(grid, c)))) > 0
    THEN Did([s EXCEPT !.map = grid, !.phase = "Player", !.turn_counter = @ + 1],
             "EndTowerPhase", NONE, "player", Emptied(s.map, grid))
    ELSE Did([s EXCEPT !.map = grid, !.phase = "GameOver"],
             "EndTowerPhase", NONE, "game over", Emptied(s.map, grid))

\* A faulty tower loop, for the sensitivity of C9_FirstStandingTowerActs: the
\* tiles are visited from the last one to the first one.
RECURSIVE TowerLoopRightToLeft(_, _, _)
TowerLoopRightToLeft(s, grid, i) ==
    IF i > Len(iter_left_to_right(grid.dims)) THEN EndTowerPhase(s, grid)
    ELSE LET order == iter_left_to_right(grid.dims)
             c == order[Len(order) + 1 - i]
             after(burnt) ==
                 IF Get(burnt, c).obj.kind = "Tower" /\ Get(burnt, c).obj.actions >= 1
                 THEN TowerPlays(s, burnt, c)
                 ELSE TowerLoopRightToLeft(s, burnt, i + 1)
         IN  The({ after(burnt) : burnt \in { FireEffect(grid, c, "Tower") } })

\* The loop over the tiles, left to right, of a tick of the tower phase, from
\* the i-th tile on: each tower met burns first; the first one that still
\* stands with an action plays and ends the loop.
RECURSIVE TowerLoop(_, _, _)
TowerLoop(s, grid, i) ==
    IF i > Len(iter_left_to_right(grid.dims)) THEN EndTowerPhase(s, grid)
    ELSE LET c == iter_left_to_right(grid.dims)[i]
             after(burnt) ==
                 IF Get(burnt, c).obj.kind = "Tower" /\ Get(burnt, c).obj.actions >= 1
                 THEN TowerPlays(s, burnt, c)
                 ELSE TowerLoop(s, burnt, i + 1)
         IN  The({ after(burnt) : burnt \in { FireEffect(grid, c, "Tower") } })

\* What a tick does when no animation is in flight and the player phase is not
\* ending right now.
PhaseLogic(s) ==
    CASE s.phase = "Enemy" ->
            UNION { IF c # NONE THEN { EnemyPlays(s, c) } ELSE EndEnemyPhase(s) :
                    c \in { min_path_dist_and_coords(s.map) } }
      [] s.phase = "Tower" -> { TowerLoop(s, s.map, 1) }
      [] s.phase = "GameOver" -> { Did(s, "GameOver", NONE, "idle", {}) }
      [] OTHER -> { s }

\* A faulty tick, for the sensitivity of C38_OneThingAtATime: the phase logic
\* may run while animations are in flight.
TickResultsPlaysInFlight(s) ==
    UNION { IF moved.crashed THEN { moved }
            ELSE IF moved.current_animations # << >>
            THEN { AnimationsTick(moved, done, shift) :
                     done \in SUBSET DOMAIN moved.current_animations, shift \in {0, 1} }
                 \cup PhaseLogic(moved)
            ELSE IF moved.end_player_phase_right_now
            THEN { Did(EndPlayerPhase(moved), "SkipPhase", NONE, "enemy", {}) }
            ELSE PhaseLogic(moved) :
            moved \in { MovingCaravanStep(s) } }

\* Event::MainEventsCleared: one tick.
TickResults(s) ==
    UNION { IF moved.crashed THEN { moved }
            ELSE IF moved.current_animations # << >>
            THEN { AnimationsTick(moved, done, shift) :
                     done \in SUBSET DOMAIN moved.current_animations, shift \in {0, 1} }
            ELSE IF moved.end_player_phase_right_now
            THEN { Did(EndPlayerPhase(moved), "SkipPhase", NONE, "enemy", {}) }
            ELSE PhaseLogic(moved) :
            moved \in { MovingCaravanStep(s) } }

(***************************************************************************)
(* The input handlers.                                                     *)
(***************************************************************************)
\* The price of a tower, in crystals.
tower_price == 10

\* The tiles the caravan can be sent to: the path tiles beyond the caravan, up
\* to the first one that holds an object.
RECURSIVE SelectableFrom(_, _, _, _)
SelectableFrom(grid, coords, i, caravan_path_dist) ==
    IF i > Len(coords) THEN << >>
    ELSE LET tile == Get(grid, coords[i])
         IN  IF tile.ground.distance <= caravan_path_dist
             THEN SelectableFrom(grid, coords, i + 1, caravan_path_dist)
             ELSE IF tile.obj # NONE /\ tile.obj.kind # "Caravan" THEN << >>
             ELSE << coords[i] >> \o SelectableFrom(grid, coords, i + 1, caravan_path_dist)

InSeq(x, seq) == \E i \in DOMAIN seq : seq[i] = x

\* A faulty confirming click, for the sensitivity of C14_MiningACrystal: the
\* crystal is mined and stays on its tile.
ConfirmClickKeepsCrystal(s) ==
    LET coords == s.selected_tile_coords
        tile == Get(s.map, coords)
    IN  IF tile = NONE THEN Panic(s)
        ELSE IF tile.obj.kind = "Crystal" /\ s.current_animations = << >>
                /\ s.interface_mode = Normal
        THEN [s EXCEPT !.current_animations = Append(@, Disappear(tile.obj, coords)),
                       !.crystal_amount = @ + 30,
                       !.end_player_phase_after_animation = TRUE]
        ELSE s

\* A faulty confirming click, for the sensitivity of C13_IllegalClickIsNoOp:
\* a tower is placed whatever the crystal amount.
ConfirmClickNoPriceTest(s) ==
    LET coords == s.selected_tile_coords
        tile == Get(s.map, coords)
    IN  IF tile = NONE THEN Panic(s)
        ELSE IF tile.obj = NONE /\ ~has_water(tile) /\ s.interface_mode = Normal
        THEN [s EXCEPT !.current_animations =
                           Append(@, Appear(Tower(0, initial_hp(s.tower_type_to_place), 0,
                                                  s.tower_type_to_place), coords)),
                       !.crystal_amount = @ - 10,
                       !.end_player_phase_after_animation = TRUE]
        ELSE s

\* A confirming click: the selected tile is clicked again, in the player
\* phase, with no animation in flight.
ConfirmClick(s) ==
    LET coords == s.selected_tile_coords
        tile == Get(s.map, coords)
    IN  IF tile = NONE THEN Panic(s)
        ELSE IF tile.obj = NONE /\ ~has_water(tile) /\ s.crystal_amount >= tower_price
                /\ s.interface_mode = Normal
        THEN \* Place a tower on empty ground.
             [s EXCEPT !.current_animations =
                           Append(@, Appear(Tower(0, initial_hp(s.tower_type_to_place), 0,
                                                  s.tower_type_to_place), coords)),
                       !.crystal_amount = @ - tower_price,
                       !.end_player_phase_after_animation = TRUE]
        ELSE IF tile.obj.kind = "Crystal" /\ s.current_animations = << >>
                /\ s.interface_mode = Normal
        THEN \* Mine the crystal.
             [s EXCEPT !.current_animations = Append(@, Disappear(tile.obj, coords)),
                       !.map = SetObj(s.map, coords, NONE),
                       !.crystal_amount = @ + 30,
                       !.end_player_phase_after_animation = TRUE]
        ELSE IF tile.obj.kind = "Caravan" /\ s.current_animations = << >>
                /\ s.interface_mode = Normal
        THEN \* Make selectable the tiles on which the caravan can move.
             IF path_coords(s.map) = NONE \/ caradan_path_dist(s.map) = NONE THEN Panic(s)
             ELSE [s EXCEPT !.interface_mode = MovingCaravanChoosingDst,
                            !.selectable_tile_coords =
                                @ \o SelectableFrom(s.map, path_coords(s.map), 1,
                                                    caradan_path_dist(s.map).value)]
        ELSE s

\* A click on a selectable tile while the destination of the caravan is being
\* chosen.
ChooseDst(s) ==
    LET dst_tile == Get(s.map, s.hovered_tile_coords)
        caravan == caravan_coords(s.map)
    IN  IF path(dst_tile) = NONE \/ caravan = NONE THEN Panic(s)
        ELSE IF path(Get(s.map, caravan)) = NONE THEN Panic(s)
        ELSE [s EXCEPT !.interface_mode =
                           MovingCaravanAnimation(dst_tile.ground.distance
                                                  - Get(s.map, caravan).ground.distance),
                       !.selectable_tile_coords = << >>]

\* A faulty left click, for the sensitivity of C11_GameOverIsTerminal: the
\* confirming click is accepted when the game is over as in the player phase.
LeftClickAfterGameOver(s) ==
    IF s.selected_tile_coords # NONE /\ s.selected_tile_coords = s.hovered_tile_coords
       /\ s.current_animations = << >> /\ s.phase \in {"Player", "GameOver"}
    THEN ConfirmClick(s)
    ELSE IF s.interface_mode = MovingCaravanChoosingDst
            /\ s.hovered_tile_coords # NONE
            /\ InSeq(s.hovered_tile_coords, s.selectable_tile_coords)
    THEN ChooseDst(s)
    ELSE IF s.interface_mode = Normal
    THEN [s EXCEPT !.selected_tile_coords = s.hovered_tile_coords,
                   !.selectable_tile_coords = << >>]
    ELSE [s EXCEPT !.interface_mode = Normal, !.selectable_tile_coords = << >>]

\* WindowEvent::MouseInput, left button pressed.
LeftClickResult(s) ==
    IF s.selected_tile_coords # NONE /\ s.selected_tile_coords = s.hovered_tile_coords
       /\ s.current_animations = << >> /\ s.phase = "Player"
    THEN ConfirmClick(s)
    ELSE IF s.interface_mode = MovingCaravanChoosingDst
            /\ s.hovered_tile_coords # NONE
            /\ InSeq(s.hovered_tile_coords, s.selectable_tile_coords)
    THEN ChooseDst(s)
    ELSE IF s.interface_mode = Normal
    THEN [s EXCEPT !.selected_tile_coords = s.hovered_tile_coords,
                   !.selectable_tile_coords = << >>]
    ELSE [s EXCEPT !.interface_mode = Normal, !.selectable_tile_coords = << >>]

\* A faulty Space handler, for the sensitivity of C39_OneCaravan: the caravan
\* is copied into the Move, not taken from its tile.
SpaceResultCopiesCaravan(s) ==
    LET coords == caravan_coords(s.map)
        ground == path(Get(s.map, coords))
        dst_coords == Add(coords, ground.forward)
    IN  IF coords = NONE THEN s
        ELSE IF ground = NONE THEN s
        ELSE IF Get(s.map, dst_coords) = NONE THEN Panic(s)
        ELSE IF Get(s.map, dst_coords).obj = NONE
        THEN [s EXCEPT !.current_animations =
                           Append(@, Move(Get(s.map, coords).obj, coords, dst_coords)),
                       !.distance_traveled = ground.distance + 1,
                       !.end_player_phase_after_animation = TRUE]
        ELSE s

\* WindowEvent::KeyboardInput, Space pressed (no animation, player phase): the
\* caravan advances one tile if the tile ahead is free.
SpaceResult(s) ==
    LET coords == caravan_coords(s.map)
        ground == path(Get(s.map, coords))
        dst_coords == Add(coords, ground.forward)
    IN  IF coords = NONE THEN s
        ELSE IF ground = NONE THEN s
        ELSE IF Get(s.map, dst_coords) = NONE THEN Panic(s)
        ELSE IF Get(s.map, dst_coords).obj = NONE
        THEN [s EXCEPT !.current_animations =
                           Append(@, Move(Get(s.map, coords).obj, coords, dst_coords)),
                       !.map = SetObj(s.map, coords, NONE),
                       !.distance_traveled = ground.distance + 1,
                       !.end_player_phase_after_animation = TRUE]
        ELSE s

\* WindowEvent::KeyboardInput, Return pressed (no animation, player phase): the
\* camera pans one tile to the right, the map is extended if needed.
ReturnResults(s) ==
    LET grown == GenerateChunks(s.map, s.camera_x)
    IN  IF grown = {} THEN { Panic(s) }
        ELSE { [s EXCEPT !.current_animations =
                             Append(@, CameraMoveX(s.camera_x, s.camera_x + 1)),
                         !.map = g,
                         !.end_player_phase_after_animation = TRUE] : g \in grown }

\* WindowEvent::CursorMoved; while the camera pans the tile under the pointer
\* may already be the next one (`shift`).
CursorMovedResult(s, position, shift) ==
    LET coords == screen_coords_to_tile_coords(s.camera_x + shift, position)
    IN  [s EXCEPT !.cursor_position = position,
                  !.hovered_tile_coords =
                      IF Contains(s.map.dims, coords) THEN coords ELSE NONE]

\* The next tower type under the T key.
NextTowerType(variant) ==
    CASE variant = "Basic" -> "Pink"
      [] variant = "Pink" -> "Blue"
      [] variant = "Blue" -> "Basic"

(***************************************************************************)
(* Construction (the start of `main`).                                     *)
(***************************************************************************)
\* The columns, from the left, that are cleared of enemies at startup (15 of
\* the 10-wide chunks of the program, scaled to the chunks of the model).
InitClearColumns == 1

\* while map.grid.dims.w * 8 * 8 < renderer.dims().w { generate a chunk }
RECURSIVE InitialChunks(_)
InitialChunks(grid) ==
    IF grid.dims.w * 8 * 8 < RendererW
    THEN UNION { InitialChunks(g) : g \in generate_chunk_on_the_right(grid) }
    ELSE { grid }

\* The enemies of the first columns are removed and the caravan is put on the
\* path tile of distance 0 of column 0.
InitialMap(grid) ==
    [grid EXCEPT !.content =
        [i \in DOMAIN grid.content |->
            LET c == DimsIter(grid.dims)[i]
                tile == grid.content[i]
            IN  IF c.x = 0 /\ has_path(tile) /\ tile.ground.distance = 0
                THEN [tile EXCEPT !.obj = Caravan]
                ELSE IF c.x < InitClearColumns /\ has_enemy(tile)
                THEN [tile EXCEPT !.obj = NONE]
                ELSE tile]]

\* The places of the pointer, in screen tiles; the last one is above the map.
PointerPositions == { Coords(0, 0), Coords(1, 0), Coords(1, 1), Coords(0, -1) }

Init ==
    /\ map \in { InitialMap(g) : g \in InitialChunks(of_size_zero) }
    /\ phase = "Player"
    /\ interface_mode = Normal
    /\ turn_counter = 0
    /\ distance_traveled = 0
    /\ crystal_amount = 20
    /\ current_animations = << >>
    /\ end_player_phase_after_animation = FALSE
    /\ end_player_phase_right_now = FALSE
    /\ camera_x = 0
    /\ cursor_position = Coords(0, -1)
    /\ hovered_tile_coords = NONE
    /\ selected_tile_coords = NONE
    /\ selectable_tile_coords = << >>
    /\ tower_type_to_place = "Basic"
    /\ crashed = FALSE
    /\ last_step = Step("Init", NONE, "none", {})
    /\ chunk_gen = GenIdle

(***************************************************************************)
(* The actions: one per event handler.                                     *)
(***************************************************************************)
\* The state a handler leaves becomes the state of the event loop; after a
\* panic nothing of it matters any more.
Commit(r) ==
    IF r.crashed
    THEN /\ crashed' = TRUE
         /\ UNCHANGED << map, phase, interface_mode, turn_counter, distance_traveled,
                         crystal_amount, current_animations,
                         end_player_phase_after_animation, end_player_phase_right_now,
                         camera_x, cursor_position, hovered_tile_coords,
                         selected_tile_coords, selectable_tile_coords,
                         tower_type_to_place >>
         /\ last_step' = Step("Panic", NONE, "none", {})
         /\ UNCHANGED chunk_gen
    ELSE /\ map' = r.map
         /\ phase' = r.phase
         /\ interface_mode' = r.interface_mode
         /\ turn_counter' = r.turn_counter
         /\ distance_traveled' = r.distance_traveled
         /\ crystal_amount' = r.crystal_amount
         /\ current_animations' = r.current_animations
         /\ end_player_phase_after_animation' = r.end_player_phase_after_animation
         /\ end_player_phase_right_now' = r.end_player_phase_right_now
         /\ camera_x' = r.camera_x
         /\ cursor_position' = r.cursor_position
         /\ hovered_tile_coords' = r.hovered_tile_coords
         /\ selected_tile_coords' = r.selected_tile_coords
         /\ selectable_tile_coords' = r.selectable_tile_coords
         /\ tower_type_to_place' = r.tower_type_to_place
         /\ crashed' = FALSE
         /\ last_step' = r.last_step
         /\ UNCHANGED chunk_gen

\* The player sends input only during the first MaxTurn turns.
PlayerActive == ~crashed /\ turn_counter < MaxTurn

\* Event::MainEventsCleared
Tick ==
    /\ ~crashed
    /\ \E r \in TickResults(Cur) : Commit(r)

\* WindowEvent::CursorMoved
CursorMoved ==
    /\ PlayerActive
    /\ \E position \in PointerPositions, shift \in {0, 1} :
          /\ shift = 1 => \E i \in DOMAIN current_animations :
                              current_animations[i].kind = "CameraMoveX"
          /\ Commit(CursorMovedResult(Cur, position, shift))

\* WindowEvent::CursorLeft
CursorLeft ==
    /\ PlayerActive
    /\ hovered_tile_coords' = NONE
    /\ UNCHANGED << map, phase, interface_mode, turn_counter, distance_traveled,
                    crystal_amount, current_animations,
                    end_player_phase_after_animation, end_player_phase_right_now,
                    camera_x, cursor_position, selected_tile_coords,
                    selectable_tile_coords, tower_type_to_place, crashed >>
    /\ UNCHANGED << last_step, chunk_gen >>

\* WindowEvent::MouseInput, left button
LeftClick ==
    /\ PlayerActive
    /\ Commit(LeftClickResult(Cur))

\* WindowEvent::MouseInput, right button
RightClick ==
    /\ PlayerActive
    /\ selected_tile_coords' = NONE
    /\ selectable_tile_coords' = << >>
    /\ UNCHANGED << map, phase, interface_mode, turn_counter, distance_traveled,
                    crystal_amount, current_animations,
                    end_player_phase_after_animation, end_player_phase_right_now,
                    camera_x, cursor_position, hovered_tile_coords,
                    tower_type_to_place, crashed >>
    /\ UNCHANGED << last_step, chunk_gen >>

\* WindowEvent::KeyboardInput, Space
KeySpace ==
    /\ PlayerActive
    /\ current_animations = << >> /\ phase = "Player"
    /\ Commit(SpaceResult(Cur))

\* WindowEvent::KeyboardInput, Return
KeyReturn ==
    /\ PlayerActive
    /\ camera_x < MaxCamera
    /\ current_animations = << >> /\ phase = "Player"
    /\ \E r \in ReturnResults(Cur) : Commit(r)

\* WindowEvent::KeyboardInput, S
KeyS ==
    /\ PlayerActive
    /\ current_animations = << >> /\ phase = "Player"
    /\ end_player_phase_right_now' = TRUE
    /\ UNCHANGED << map, phase, interface_mode, turn_counter, distance_traveled,
                    crystal_amount, current_animations,
                    end_player_phase_after_animation, camera_x, cursor_position,
                    hovered_tile_coords, selected_tile_coords, selectable_tile_coords,
                    tower_type_to_place, crashed >>
    /\ UNCHANGED << last_step, chunk_gen >>

\* WindowEvent::KeyboardInput, T
KeyT ==
    /\ PlayerActive
    /\ tower_type_to_place' = NextTowerType(tower_type_to_place)
    /\ UNCHANGED << map, phase, interface_mode, turn_counter, distance_traveled,
                    crystal_amount, current_animations,
                    end_player_phase_after_animation, end_player_phase_right_now,
                    camera_x, cursor_position, hovered_tile_coords,
                    selected_tile_coords, selectable_tile_coords, crashed >>
    /\ UNCHANGED << last_step, chunk_gen >>

Next ==
    \/ Tick
    \/ CursorMoved
    \/ CursorLeft
    \/ LeftClick
    \/ RightClick
    \/ KeySpace
    \/ KeyReturn
    \/ KeyS
    \/ KeyT

Spec == Init /\ [][Next]_vars

(***************************************************************************)
(* A battle in progress.  Play from construction, within the turns explored *)
(* above, meets neither burning objects nor enemies about to reach the     *)
(* caravan.  The second specification starts in the player phase of a      *)
(* later turn on the one-chunk map: the caravan has not moved, towers have *)
(* been placed (also on the path) and some have been set on fire and       *)
(* burnt down to their last hit point, enemies have walked in and some     *)
(* have been wounded, set on fire, and given extra actions by blue shots.  *)
(* The player skips the turn and the enemy and tower phases run.           *)
(***************************************************************************)
\* What stands on each tile of the chunk, the caravan tile apart: a choice
\* per tile (ChunkRoute gives the distances: (0,1) is 1, (1,1) is 2, (2,1)
\* is 3, (2,0) is 4, and (1,0) is the grass tile).
BattleChoices ==
    [ c01 : { NONE, Enemy(0, 8, 0), Enemy(2, 8, 0),
              Tower(0, 1, 2, "Basic"), Tower(0, 3, 0, "Basic") },
      c10 : { NONE, Tower(0, 3, 0, "Basic"), Tower(0, 4, 0, "Pink"), Tower(0, 3, 0, "Blue") },
      c11 : { NONE, Enemy(0, 8, 0), Enemy(2, 1, 1), Enemy(2, 2, 1) },
      c21 : { NONE, Enemy(0, 8, 0) },
      c20 : { NONE, Enemy(0, 2, 0) } ]

BattleMap(grid, b) ==
    SetObj(SetObj(SetObj(SetObj(SetObj(grid,
        Coords(0, 1), b.c01), Coords(1, 0), b.c10), Coords(1, 1), b.c11),
        Coords(2, 1), b.c21), Coords(2, 0), b.c20)

\* The battles followed under fairness: the ones of BattleChoices in which
\* every kind of step of the two phases happens (enemies that move, are
\* blocked and burn, towers that shoot, find no target and burn down).
FairBattleChoices ==
    [ c01 : { Enemy(2, 8, 0), Tower(0, 1, 2, "Basic") },
      c10 : { Tower(0, 4, 0, "Pink"), Tower(0, 3, 0, "Blue") },
      c11 : { Enemy(0, 8, 0), Enemy(2, 2, 1) },
      c21 : { NONE, Enemy(0, 8, 0) },
      c20 : { NONE } ]

BattleStart(choices) ==
    /\ map \in { BattleMap(InitialMap(g), b) :
                   g \in InitialChunks(of_size_zero), b \in choices }
    /\ phase = "Player"
    /\ interface_mode = Normal
    /\ turn_counter = 0
    /\ distance_traveled = 0
    /\ crystal_amount = 20
    /\ current_animations = << >>
    /\ end_player_phase_after_animation = FALSE
    /\ end_player_phase_right_now = FALSE
    /\ camera_x = 0
    /\ cursor_position = Coords(0, -1)
    /\ hovered_tile_coords = NONE
    /\ selected_tile_coords = NONE
    /\ selectable_tile_coords = << >>
    /\ tower_type_to_place = "Basic"
    /\ crashed = FALSE
    /\ last_step = Step("Init", NONE, "none", {})
    /\ chunk_gen = GenIdle

BattleInit == BattleStart(BattleChoices)

FairBattleInit == BattleStart(FairBattleChoices)

BattleNext ==
    \/ Tick
    \/ KeyS

SpecBattle == BattleInit /\ [][BattleNext]_vars

\* The event loop keeps ticking, and a tick that can change the state (an
\* animation finishing, a phase step) eventually happens.
SpecBattleFair == FairBattleInit /\ [][BattleNext]_vars /\ WF_vars(Tick)

(***************************************************************************)
(* Properties.                                                             *)
(***************************************************************************)
\* The coordinates of the tiles of a grid.
GridCoords(grid) ==
    { Coords(x, y) : x \in 0..(grid.dims.w - 1), y \in 0..(grid.dims.h - 1) }

\* The object on the tile at `c` (a record of kind "None" for an empty tile
\* and for a tile outside the grid).
ObjAt(grid, c) == IF Get(grid, c) = NONE THEN NONE ELSE Get(grid, c).obj

\* The tiles that hold an object of the kind with at least one pending action.
Pending(grid, kind) ==
    { c \in GridCoords(grid) : ObjAt(grid, c).kind = kind /\ ObjAt(grid, c).actions >= 1 }

PhaseOrder ==
    { << "Player", "Enemy" >>, << "Enemy", "Tower" >>,
      << "Tower", "Player" >>, << "Tower", "GameOver" >> }

\* C1: whatever the events, the phase changes only from Player to Enemy, from
\* Enemy to Tower, from Tower to Player and from Tower to GameOver.
C1_PhaseTransitions == [][phase' # phase => << phase, phase' >> \in PhaseOrder]_vars

\* A whole turn has gone round: the tower phase has handed over to the player.
C1_TurnWentRound ==
    phase = "Player" /\ turn_counter = 1 /\ last_step = Step("EndTowerPhase", NONE, "player", {})

\* Every enemy and tower of the grid before the step is still there after it,
\* with one more action when of the kind and untouched otherwise.
GrantedTo(kind) ==
    \A c \in GridCoords(map) :
        ObjAt(map, c).kind \in {"Enemy", "Tower"} =>
            ObjAt(map', c) = IF ObjAt(map, c).kind = kind
                             THEN [ObjAt(map, c) EXCEPT !.actions = @ + 1]
                             ELSE ObjAt(map, c)

\* C4: when the phase becomes Enemy every enemy of the grid gets exactly one
\* more pending action, when it becomes Tower every tower does, and the
\* transition changes no hit points, no fire counter and no counter of any
\* other enemy or tower.
C4_PhaseEntryGrants ==
    [][/\ (phase # "Enemy" /\ phase' = "Enemy") => GrantedTo("Enemy")
       /\ (phase # "Tower" /\ phase' = "Tower") => GrantedTo("Tower")]_vars

\* The tower phase has just been entered with a tower that got its action and
\* an enemy that got none.
C4_TowersGranted ==
    /\ phase = "Tower" /\ last_step.kind = "EndEnemyPhase"
    /\ \E c \in GridCoords(map) : ObjAt(map, c).kind = "Tower" /\ ObjAt(map, c).actions = 1
    /\ \E c \in GridCoords(map) : ObjAt(map, c).kind = "Enemy" /\ ObjAt(map, c).actions = 0

NoCaravan(grid) == \A c \in GridCoords(grid) : ObjAt(grid, c).kind # "Caravan"

\* C10: when the tower phase ends, the phase becomes GameOver exactly when no
\* tile holds the caravan and Player otherwise; turn_counter grows by one on
\* the change from Tower to Player and changes in no other step.
C10_TowerPhaseExit ==
    [][/\ (phase = "Tower" /\ phase' # "Tower") =>
              /\ NoCaravan(map) = NoCaravan(map')
              /\ phase' = IF NoCaravan(map) THEN "GameOver" ELSE "Player"
       /\ turn_counter' =
              IF phase = "Tower" /\ phase' = "Player" THEN turn_counter + 1
              ELSE turn_counter]_vars

\* The game is over: an enemy has walked on the caravan.
C10_GameLost ==
    phase = "GameOver" /\ NoCaravan(map) /\ turn_counter = 0

(***************************************************************************)
(* Properties of the enemy and tower phases, checked on battles.           *)
(***************************************************************************)
\* The distance written on the path tile at `c`.
DistAt(grid, c) == Get(grid, c).ground.distance

\* An object that its fire damage destroys when it is activated.
BurnsDown(obj) == obj.actions >= 1 /\ obj.fire >= 1 /\ obj.hp <= 1

\* A step of the game, as opposed to one of the interface alone.
GameStep ==
    << map, current_animations, phase >>' # << map, current_animations, phase >>

\* A tick of the enemy phase finds an enemy to play: no animation is in
\* flight, no move of the caravan in progress.
EnemyStep ==
    /\ phase = "Enemy" /\ current_animations = << >> /\ interface_mode = Normal
    /\ Pending(map, "Enemy") # {}
    /\ GameStep

\* The enemy with a pending action on the path tile of least distance.
ClosestPending ==
    CHOOSE c \in Pending(map, "Enemy") :
        \A c2 \in Pending(map, "Enemy") : DistAt(map, c) <= DistAt(map, c2)

\* C2 as stated: the phase leaves Enemy for Tower only from a state with no
\* pending enemy action and no animation in flight, and leaves Tower only
\* from a state with no pending tower action and no animation in flight.
C2_ExitsOnlyWhenNonePending ==
    [][/\ (phase = "Enemy" /\ phase' = "Tower") =>
              Pending(map, "Enemy") = {} /\ current_animations = << >>
       /\ (phase = "Tower" /\ phase' \in {"Player", "GameOver"}) =>
              Pending(map, "Tower") = {} /\ current_animations = << >>]_vars

\* C2, amended: the phase leaves Enemy for Tower only from a state with no
\* pending enemy action and no animation in flight; it leaves Tower only from
\* a state with no animation in flight in which every tower with a pending
\* action is one that its fire damage destroys in that tick, so that no tower
\* left on the grid has a pending action.
C2_PhaseExitGuards ==
    [][/\ (phase = "Enemy" /\ phase' = "Tower") =>
              Pending(map, "Enemy") = {} /\ current_animations = << >>
       /\ (phase = "Tower" /\ phase' \in {"Player", "GameOver"}) =>
              /\ current_animations = << >>
              /\ Pending(map', "Tower") = {}
              /\ \A c \in Pending(map, "Tower") :
                     BurnsDown(ObjAt(map, c)) /\ ObjAt(map', c) = NONE]_vars

\* The tower phase has ended in the tick in which the last tower with an
\* action burnt down, and the enemy phase ended before it.
C2_TowerBurntAtExit ==
    /\ last_step.kind = "EndTowerPhase" /\ last_step.burnt = { Coords(0, 1) }
    /\ phase = "Player" /\ Pending(map, "Tower") = {}

\* C3: with ticks that keep coming and animations that finish, the enemy
\* phase leads to the tower phase and the tower phase leads to the player
\* phase or to the end of the game.
C3_PhasesEnd ==
    /\ (phase = "Enemy") ~> (phase = "Tower")
    /\ (phase = "Tower") ~> (phase \in {"Player", "GameOver"})

\* Both phases have run to their end, a tower having wounded an enemy.
C3_TurnPlayed ==
    /\ phase = "Player" /\ turn_counter = 1
    /\ \E c \in GridCoords(map) : ObjAt(map, c).kind = "Enemy" /\ ObjAt(map, c).hp = 9

\* C5: in a step of the enemy phase the enemy that acts (the one whose tile
\* changes) is the one on the path tile of least distance among the enemies
\* with a pending action, and a step that finds such enemies makes one act.
C5_ClosestEnemyFirst ==
    [][EnemyStep =>
          /\ \A c \in Pending(map, "Enemy") :
                 ObjAt(map', c) # ObjAt(map, c) =>
                     \A c2 \in Pending(map, "Enemy") : DistAt(map, c) <= DistAt(map, c2)
          /\ \E c \in Pending(map, "Enemy") : ObjAt(map', c) # ObjAt(map, c)]_vars

\* An enemy has moved while an enemy further from the caravan still waits.
C5_CloserMovedFirst ==
    /\ phase = "Enemy" /\ last_step.kind = "Enemy" /\ last_step.result = "moved"
    /\ \E c \in Pending(map, "Enemy") : DistAt(map, c) > DistAt(map, last_step.at)

\* The tile behind the path tile at `c`, towards the caravan.
Behind(c) == Add(c, Get(map, c).ground.backward)

\* An enemy may step on a tile of the grid that is empty or holds the caravan
\* or a tower.
Free(c) == Get(map, c) # NONE /\ ObjAt(map, c).kind \in {"None", "Caravan", "Tower"}

\* C6: the enemy that acts and survives its fire has its pending actions
\* decreased by exactly 1; it leaves its tile in a Move to the tile behind it
\* exactly when that tile exists and is empty or holds the caravan or a
\* tower, and otherwise stays where it is, the action consumed all the same.
C6_EnemyStep ==
    [][(EnemyStep /\ ~BurnsDown(ObjAt(map, ClosestPending))) =>
          LET c == ClosestPending
              e == ObjAt(map, c)
          IN  IF Free(Behind(c))
              THEN /\ ObjAt(map', c) = NONE
                   /\ Len(current_animations') = 1
                   /\ current_animations'[1].kind = "Move"
                   /\ current_animations'[1].from = c
                   /\ current_animations'[1].to = Behind(c)
                   /\ current_animations'[1].obj.kind = "Enemy"
                   /\ current_animations'[1].obj.actions = e.actions - 1
              ELSE /\ ObjAt(map', c).kind = "Enemy"
                   /\ ObjAt(map', c).actions = e.actions - 1
                   /\ current_animations' = << >>]_vars

\* An enemy has lost an action facing the enemy that stands where the caravan
\* was.
C6_EnemyBlockedByEnemy ==
    /\ last_step.kind = "Enemy" /\ last_step.result = "blocked"
    /\ last_step.at = Coords(0, 1)
    /\ ObjAt(map, Coords(0, 0)).kind = "Enemy"
    /\ ObjAt(map, Coords(0, 1)).kind = "Enemy"

\* The acting enemy after its step: it stays on its tile or is carried by the
\* Move that the step started.
AfterStep(c) ==
    IF current_animations' # << >> THEN current_animations'[1].obj ELSE ObjAt(map', c)

\* A tick of the tower phase that runs the tower loop.
TowerStep ==
    /\ phase = "Tower" /\ current_animations = << >> /\ interface_mode = Normal
    /\ GameStep

\* The fire rule for an object `obj` activated on tile `c` whose state after
\* the step is `after` (NONE when it is gone).
FireRule(obj, after) ==
    IF obj.fire >= 1
    THEN IF obj.hp - 1 <= 0
         THEN after = NONE
         ELSE after.kind = obj.kind /\ after.fire = obj.fire - 1
              /\ after.hp = obj.hp - 1 /\ after.actions = obj.actions - 1
    ELSE after.kind = obj.kind /\ after.fire = 0 /\ after.hp = obj.hp

\* C7: an enemy or a tower with a pending action that is activated while its
\* fire counter is 1 or more loses one fire and one hit point before its
\* action is consumed; when that leaves it no hit point it is removed from
\* its tile and neither moves nor shoots in that step; with a fire counter of
\* 0 its hit points are left alone.
C7_FireBeforeAction ==
    [][/\ EnemyStep =>
              LET c == ClosestPending
                  e == ObjAt(map, c)
              IN  /\ FireRule(e, IF BurnsDown(e) THEN ObjAt(map', c) ELSE AfterStep(c))
                  /\ BurnsDown(e) => current_animations' = << >>
       /\ TowerStep =>
              \A c \in Pending(map, "Tower") :
                  ObjAt(map', c) # ObjAt(map, c) =>
                      /\ FireRule(ObjAt(map, c), ObjAt(map', c))
                      /\ BurnsDown(ObjAt(map, c)) =>
                             \A i \in DOMAIN current_animations' :
                                 current_animations'[i].from # c]_vars

\* A burning enemy has been wounded by its fire and has gone on with its
\* step; it is on the tile it moved to, with no fire left.
C7_EnemyBurntAndMoved ==
    /\ phase = "Enemy" /\ current_animations = << >>
    /\ ObjAt(map, Coords(0, 1)) = Enemy(2, 1, 0)

\* The first tile with an object seen from `c` along `direction`, or NONE.
FirstSeen(grid, c, direction) ==
    LET reach == 1..(grid.dims.w + grid.dims.h)
        at(k) == Coords(c.x + k * direction.dx, c.y + k * direction.dy)
        seen == { k \in reach : Get(grid, at(k)) # NONE /\ ObjAt(grid, at(k)) # NONE }
    IN  IF seen = {} THEN NONE
        ELSE at(CHOOSE k \in seen : \A k2 \in seen : k <= k2)

\* The directions (as indices of the scan order UP, RIGHT, DOWN, LEFT) in
\* which the first object seen from `c` is an enemy.
Candidates(grid, c) ==
    { i \in DOMAIN iter_4_directions :
        /\ FirstSeen(grid, c, iter_4_directions[i]) # NONE
        /\ ObjAt(grid, FirstSeen(grid, c, iter_4_directions[i])).kind = "Enemy" }

\* The candidate with the least path distance, the earliest scanned among
\* equals.
BestCandidate(grid, c) ==
    LET dist(i) == DistAt(grid, FirstSeen(grid, c, iter_4_directions[i]))
    IN  CHOOSE i \in Candidates(grid, c) :
            \A j \in Candidates(grid, c) : dist(i) < dist(j) \/ (dist(i) = dist(j) /\ i <= j)

\* C8: the tower that takes its action (its pending actions decrease) scans
\* UP, RIGHT, DOWN, LEFT up to the first object; the directions in which that
\* object is an enemy are the candidates; it shoots towards the candidate of
\* least path distance, the earliest scanned among equals, and with no
\* candidate it shoots nothing; its action is consumed in both cases.
C8_TowerTarget ==
    [][TowerStep =>
          \A c \in Pending(map, "Tower") :
              (ObjAt(map', c).kind = "Tower" /\ ObjAt(map', c) # ObjAt(map, c)) =>
                  /\ ObjAt(map', c).actions = ObjAt(map, c).actions - 1
                  /\ current_animations' =
                         IF Candidates(map', c) = {} THEN << >>
                         ELSE << Shoot(c, iter_4_directions[BestCandidate(map', c)],
                                       shot(ObjAt(map, c).variant)) >>]_vars

\* The tower of the grass tile has seen an enemy on its right and a closer one
\* below it, and has shot down.
C8_ShotAtCloser ==
    /\ last_step.kind = "Tower" /\ last_step.result = "shot"
    /\ last_step.at = Coords(1, 0)
    /\ current_animations # << >>
    /\ current_animations[1].kind = "Shoot" /\ current_animations[1].direction = DOWN
    /\ ObjAt(map, Coords(2, 0)).kind = "Enemy"
    /\ ObjAt(map, Coords(1, 1)).kind = "Enemy"

\* The place of the tile at `c` in the left-to-right order of the tower loop.
Place(grid, c) ==
    CHOOSE i \in DOMAIN iter_left_to_right(grid.dims) : iter_left_to_right(grid.dims)[i] = c

\* The tile, among `tiles`, that the tower loop meets first.
FirstOf(grid, tiles) ==
    CHOOSE c \in tiles : \A c2 \in tiles : Place(grid, c) <= Place(grid, c2)

\* The towers that have acted in the step: still there, with one pending
\* action less.
Acted ==
    { c \in Pending(map, "Tower") :
        ObjAt(map', c).kind = "Tower"
        /\ ObjAt(map', c).actions = ObjAt(map, c).actions - 1 }

\* C9 as stated: in a step of the tower phase at most one tower acts, and it
\* is the first tower with a pending action in left-to-right order.
C9_FirstPendingTowerActs ==
    [][TowerStep =>
          \A c \in Acted : c = FirstOf(map, Pending(map, "Tower"))]_vars

\* The towers with a pending action that their fire does not destroy.
Standing == { c \in Pending(map, "Tower") : ~BurnsDown(ObjAt(map, c)) }

\* C9, amended: in a step of the tower phase at most one tower acts; it is
\* the first tower, in left-to-right order, with a pending action that its
\* own fire damage does not destroy in that step, and its pending actions
\* decrease by exactly 1 whether or not it finds a target; the towers with a
\* pending action met before it burn down without acting and every other
\* tower is left as it was.
C9_FirstStandingTowerActs ==
    [][TowerStep =>
          /\ Acted = IF Standing = {} THEN {} ELSE { FirstOf(map, Standing) }
          /\ \A c \in GridCoords(map) :
                 (ObjAt(map, c).kind = "Tower" /\ c \notin Acted) =>
                     IF /\ BurnsDown(ObjAt(map, c))
                        /\ \A a \in Acted : Place(map, c) < Place(map, a)
                     THEN ObjAt(map', c) = NONE
                     ELSE ObjAt(map', c) = ObjAt(map, c)]_vars

\* The tower on the left has burnt down and the tower on its right has played
\* in the same tick.
C9_PlayedAfterBurntTower ==
    /\ last_step.kind = "Tower" /\ last_step.at = Coords(1, 0)
    /\ last_step.burnt = { Coords(0, 1) }

(***************************************************************************)
(* The start of a tower phase, for the shots.  On the one-chunk map towers *)
(* of the three types stand on the grass tile and on the path with the     *)
(* action of the phase, and enemies stand on the path, so that shots leave *)
(* in each of the four directions, fly over free tiles, hit, pierce, split *)
(* and leave the grid.  Only ticks run.                                    *)
(***************************************************************************)
ShotChoices ==
    [ c01 : { NONE, Enemy(0, 8, 0) },
      c10 : { NONE, Tower(1, 3, 0, "Basic"), Tower(1, 4, 0, "Pink"), Tower(1, 3, 0, "Blue") },
      c11 : { NONE, Enemy(0, 8, 0), Enemy(0, 2, 0) },
      c21 : { NONE, Enemy(0, 8, 0), Tower(1, 4, 0, "Pink"), Tower(1, 3, 0, "Blue") },
      c20 : { NONE, Enemy(0, 8, 0) } ]

ShotInit ==
    /\ map \in { BattleMap(InitialMap(g), b) :
                   g \in InitialChunks(of_size_zero), b \in ShotChoices }
    /\ phase = "Tower"
    /\ interface_mode = Normal
    /\ turn_counter = 0
    /\ distance_traveled = 0
    /\ crystal_amount = 20
    /\ current_animations = << >>
    /\ end_player_phase_after_animation = FALSE
    /\ end_player_phase_right_now = FALSE
    /\ camera_x = 0
    /\ cursor_position = Coords(0, -1)
    /\ hovered_tile_coords = NONE
    /\ selected_tile_coords = NONE
    /\ selectable_tile_coords = << >>
    /\ tower_type_to_place = "Basic"
    /\ crashed = FALSE
    /\ last_step = Step("EndEnemyPhase", NONE, "tower", {})
    /\ chunk_gen = GenIdle

ShotNext == Tick

SpecShot == ShotInit /\ [][ShotNext]_vars

\* The same tower phases with ticks that keep coming: a tick that can change
\* the state (an animation finishing, a tower playing) eventually happens.
SpecShotFair == ShotInit /\ [][ShotNext]_vars /\ WF_vars(Tick)

\* Tower phases on a map of two chunks, where row 1 is a line of six path
\* tiles: a blue tower on its second tile is about to play, and the tiles
\* around it and along the line are free or hold an enemy, a tower or a rock.
LineChoices ==
    [ c01 : { NONE, Enemy(0, 8, 0) },
      c10 : { NONE, Rock },
      c21 : { NONE, Enemy(0, 8, 0) },
      c31 : { NONE, Enemy(0, 8, 0), Tower(0, 3, 0, "Basic"), Rock },
      c41 : { NONE, Enemy(0, 2, 0), Tower(0, 4, 0, "Pink") },
      c51 : { NONE, Enemy(0, 8, 0) } ]

LineMap(grid, b) ==
    SetObj(SetObj(SetObj(SetObj(SetObj(SetObj(SetObj(grid,
        Coords(1, 1), Tower(1, 3, 0, "Blue")),
        Coords(0, 1), b.c01), Coords(1, 0), b.c10), Coords(2, 1), b.c21),
        Coords(3, 1), b.c31), Coords(4, 1), b.c41), Coords(5, 1), b.c51)

LineInit ==
    /\ map \in { LineMap(wide, b) :
                   wide \in UNION { generate_chunk_on_the_right(InitialMap(g)) :
                                      g \in InitialChunks(of_size_zero) },
                   b \in LineChoices }
    /\ phase = "Tower"
    /\ interface_mode = Normal
    /\ turn_counter = 0
    /\ distance_traveled = 0
    /\ crystal_amount = 20
    /\ current_animations = << >>
    /\ end_player_phase_after_animation = FALSE
    /\ end_player_phase_right_now = FALSE
    /\ camera_x = 0
    /\ cursor_position = Coords(0, -1)
    /\ hovered_tile_coords = NONE
    /\ selected_tile_coords = NONE
    /\ selectable_tile_coords = << >>
    /\ tower_type_to_place = "Basic"
    /\ crashed = FALSE
    /\ last_step = Step("EndEnemyPhase", NONE, "tower", {})
    /\ chunk_gen = GenIdle

LineNext == Tick

SpecLine == LineInit /\ [][LineNext]_vars

\* Enemy phases on a map of two chunks with the camera one tile to the right
\* and the caravan one tile further on the path: the spawn column is the
\* first column of the second chunk, whose path tile and the tiles before
\* it on the path are free or hold an enemy (with actions left or not) or a
\* tower.
SpawnChoices ==
    [ c20 : { NONE, Enemy(0, 8, 0), Tower(0, 3, 0, "Basic") },
      c30 : { NONE, Enemy(0, 8, 0), Enemy(1, 8, 0), Enemy(1, 1, 1) },
      c31 : { NONE, Enemy(1, 8, 0) },
      c10 : { NONE, Tower(0, 4, 0, "Pink") } ]

SpawnMap(grid, b) ==
    SetObj(SetObj(SetObj(SetObj(SetObj(SetObj(grid,
        Coords(0, 0), NONE), Coords(0, 1), Caravan),
        Coords(2, 0), b.c20), Coords(3, 0), b.c30), Coords(3, 1), b.c31),
        Coords(1, 0), b.c10)

SpawnInit ==
    /\ map \in { SpawnMap(wide, b) :
                   wide \in UNION { generate_chunk_on_the_right(InitialMap(g)) :
                                      g \in InitialChunks(of_size_zero) },
                   b \in SpawnChoices }
    /\ phase = "Enemy"
    /\ interface_mode = Normal
    /\ turn_counter = 0
    /\ distance_traveled = 1
    /\ crystal_amount = 20
    /\ current_animations = << >>
    /\ end_player_phase_after_animation = FALSE
    /\ end_player_phase_right_now = FALSE
    /\ camera_x = 1
    /\ cursor_position = Coords(0, -1)
    /\ hovered_tile_coords = NONE
    /\ selected_tile_coords = NONE
    /\ selectable_tile_coords = << >>
    /\ tower_type_to_place = "Basic"
    /\ crashed = FALSE
    /\ last_step = Step("SkipPhase", NONE, "enemy", {})
    /\ chunk_gen = GenIdle

SpawnNext == Tick

SpecSpawn == SpawnInit /\ [][SpawnNext]_vars

(***************************************************************************)
(* Map::shot_hits_obj_at on its own: in a tower phase a shot with any      *)
(* payload (damage, fire, actions) and any cascade is in flight, one tile  *)
(* from an object of any kind, and ticks run.                              *)
(***************************************************************************)
HitShots ==
    { Shot(damages, fire, additional_actions, cascade) :
        damages \in {-1, 0, 1, 3}, fire \in {0, 4}, additional_actions \in {0, 2},
        cascade \in { CascadeNone, Piercing(Shot(1, 0, 0, CascadeNone)),
                      SplitInTwo(Shot(3, 0, 0, CascadeNone)) } }

\* Where the shot is, where it goes and what stands there: the caravan on its
\* tile, an object of the grass tile, an enemy or a tower on the path.
HitTargets ==
    { [from |-> Coords(0, 1), direction |-> UP, obj |-> Caravan] }
    \cup { [from |-> Coords(1, 1), direction |-> UP, obj |-> o] :
             o \in { Tree, Rock, Crystal, Tower(0, 1, 0, "Basic"), Tower(0, 3, 1, "Blue") } }
    \cup { [from |-> Coords(0, 1), direction |-> RIGHT, obj |-> o] :
             o \in { Enemy(0, 1, 0), Enemy(1, 3, 2), Enemy(0, 8, 0) } }

HitInit ==
    /\ \E t \in HitTargets :
          /\ map \in { SetObj(InitialMap(g), Add(t.from, t.direction), t.obj) :
                         g \in InitialChunks(of_size_zero) }
          /\ current_animations \in { << Shoot(t.from, t.direction, s) >> : s \in HitShots }
    /\ phase = "Tower"
    /\ interface_mode = Normal
    /\ turn_counter = 0
    /\ distance_traveled = 0
    /\ crystal_amount = 20
    /\ end_player_phase_after_animation = FALSE
    /\ end_player_phase_right_now = FALSE
    /\ camera_x = 0
    /\ cursor_position = Coords(0, -1)
    /\ hovered_tile_coords = NONE
    /\ selected_tile_coords = NONE
    /\ selectable_tile_coords = << >>
    /\ tower_type_to_place = "Basic"
    /\ crashed = FALSE
    /\ last_step = Step("Tower", NONE, "shot", {})
    /\ chunk_gen = GenIdle

HitNext == Tick

SpecHit == HitInit /\ [][HitNext]_vars

(***************************************************************************)
(* The player phase of a later turn: the caravan has come to any tile of   *)
(* the path of the map, the last one included, and the tile ahead of it is *)
(* free or holds an enemy or a tower.  The turn counter, which no handler  *)
(* reads, is counted from this turn.  The player advances the caravan,     *)
(* pans the camera or skips the phase, and ticks run.                      *)
(***************************************************************************)
AdvanceChoices ==
    [ at : DOMAIN ChunkRoute,
      ahead : { NONE, Enemy(0, 8, 0), Tower(0, 3, 0, "Basic") } ]

AdvanceMap(grid, b) ==
    LET moved == SetObj(SetObj(grid, Coords(0, 0), NONE), ChunkRoute[b.at], Caravan)
    IN  IF b.at < Len(ChunkRoute) THEN SetObj(moved, ChunkRoute[b.at + 1], b.ahead)
        ELSE moved

AdvanceInit ==
    /\ \E b \in AdvanceChoices :
          /\ map \in { AdvanceMap(InitialMap(g), b) : g \in InitialChunks(of_size_zero) }
          /\ distance_traveled = b.at - 1
    /\ phase = "Player"
    /\ interface_mode = Normal
    /\ turn_counter = 0
    /\ crystal_amount = 20
    /\ current_animations = << >>
    /\ end_player_phase_after_animation = FALSE
    /\ end_player_phase_right_now = FALSE
    /\ camera_x = 0
    /\ cursor_position = Coords(0, -1)
    /\ hovered_tile_coords = NONE
    /\ selected_tile_coords = NONE
    /\ selectable_tile_coords = << >>
    /\ tower_type_to_place = "Basic"
    /\ crashed = FALSE
    /\ last_step = Step("Init", NONE, "none", {})
    /\ chunk_gen = GenIdle

AdvanceNext ==
    \/ Tick
    \/ KeySpace
    \/ KeyReturn
    \/ KeyS

SpecAdvance == AdvanceInit /\ [][AdvanceNext]_vars

(***************************************************************************)
(* The generation of a chunk, followed step by step: main's map is empty   *)
(* or holds one chunk already, and Map::generate_chunk_on_the_right calls  *)
(* Chunk::generate with the join of the map and appends what it returns.   *)
(***************************************************************************)
\* The directions of a walk that Chunk::generate accepts: along row 0, down
\* to row 2, back to column 0, down to row 3 and out along it.
PreviousWalk ==
    [i \in 1..(WalkW - 1) |-> RIGHT] \o << DOWN, DOWN >> \o
    [i \in 1..(WalkW - 1) |-> LEFT] \o << DOWN >> \o
    [i \in 1..WalkW |-> RIGHT]

RECURSIVE WalkAlong(_, _)
WalkAlong(g, dirs) ==
    IF dirs = << >> THEN g
    ELSE WalkAlong(WalkOneTile(g, Head(dirs), {}, FALSE), Tail(dirs))

\* The map after a first chunk whose walk was PreviousWalk and whose passes
\* drew nothing.
PreviousMap ==
    CleanUp(WalkAlong(CHOOSE g \in TryNewPath(NONE) : g.cur_head.y = 0, PreviousWalk).grid)

GenInit ==
    /\ map \in { of_size_zero, PreviousMap }
    /\ phase = "Player"
    /\ interface_mode = Normal
    /\ turn_counter = 0
    /\ distance_traveled = 0
    /\ crystal_amount = 20
    /\ current_animations = << >>
    /\ end_player_phase_after_animation = FALSE
    /\ end_player_phase_right_now = FALSE
    /\ camera_x = 0
    /\ cursor_position = Coords(0, -1)
    /\ hovered_tile_coords = NONE
    /\ selected_tile_coords = NONE
    /\ selectable_tile_coords = << >>
    /\ tower_type_to_place = "Basic"
    /\ crashed = FALSE
    /\ last_step = Step("Init", NONE, "none", {})
    /\ chunk_gen \in TryNewPath(rightmost_path_y_and_dist(map))

\* One turn of the loop that draws the path.
GenWalk ==
    /\ chunk_gen.pc = "walk"
    /\ chunk_gen' \in WalkResults(chunk_gen)
    /\ UNCHANGED << map, phase, interface_mode, turn_counter, distance_traveled,
                    crystal_amount, current_animations,
                    end_player_phase_after_animation, end_player_phase_right_now,
                    camera_x, cursor_position, hovered_tile_coords,
                    selected_tile_coords, selectable_tile_coords,
                    tower_type_to_place, crashed, last_step >>

\* The passes of the water, trees, rocks, crystals and enemies, and the
\* return of the chunk.
GenPasses ==
    /\ chunk_gen.pc = "passes"
    /\ chunk_gen' \in PassesResults(chunk_gen)
    /\ UNCHANGED << map, phase, interface_mode, turn_counter, distance_traveled,
                    crystal_amount, current_animations,
                    end_player_phase_after_animation, end_player_phase_right_now,
                    camera_x, cursor_position, hovered_tile_coords,
                    selected_tile_coords, selectable_tile_coords,
                    tower_type_to_place, crashed, last_step >>

\* Map::generate_chunk_on_the_right appends the chunk returned.
GenAppend ==
    /\ chunk_gen.pc = "returned"
    /\ map' = add_to_right(map, chunk_gen.grid)
    /\ chunk_gen' = GenIdle
    /\ UNCHANGED << phase, interface_mode, turn_counter, distance_traveled,
                    crystal_amount, current_animations,
                    end_player_phase_after_animation, end_player_phase_right_now,
                    camera_x, cursor_position, hovered_tile_coords,
                    selected_tile_coords, selectable_tile_coords,
                    tower_type_to_place, crashed, last_step >>

GenNext ==
    \/ GenWalk
    \/ GenPasses
    \/ GenAppend

SpecGen == GenInit /\ [][GenNext]_vars

(***************************************************************************)
(* The player phase of a later turn, for the clicks.  The one-chunk map    *)
(* has on its grass tile what Chunk::generate can leave there (nothing, on *)
(* grass or on water, a tree, a rock) or a tower placed before; an enemy   *)
(* may stand on the path next to it; crystals have been spent.  The player *)
(* moves the pointer, clicks and changes the tower type, and ticks run.    *)
(***************************************************************************)
ClickTiles ==
    { Tile(Grass, NONE), Tile(Water, NONE), Tile(Grass, Tree), Tile(Grass, Rock),
      Tile(Grass, Tower(0, 3, 0, "Basic")) }

ClickEnemies == { NONE, Enemy(0, 8, 0) }

\* The crystal amounts at the start: none left, one short of the price of a
\* tower (the game itself counts in tens), the price of a tower.
ClickCrystals == { 0, tower_price - 1, tower_price }

ClickMap(grid, tile, enemy) ==
    SetObj([grid EXCEPT !.content[index_of_coords(grid.dims, Coords(1, 0)).value + 1] = tile],
           Coords(1, 1), enemy)

ClickInit ==
    /\ map \in { ClickMap(InitialMap(g), tile, enemy) :
                   g \in { h \in InitialChunks(of_size_zero) :
                             \A c \in GridCoords(h) : ObjAt(h, c) = NONE },
                   tile \in ClickTiles, enemy \in ClickEnemies }
    /\ phase = "Player"
    /\ interface_mode = Normal
    /\ turn_counter = 0
    /\ distance_traveled = 0
    /\ crystal_amount \in ClickCrystals
    /\ current_animations = << >>
    /\ end_player_phase_after_animation = FALSE
    /\ end_player_phase_right_now = FALSE
    /\ camera_x = 0
    /\ cursor_position = Coords(0, -1)
    /\ hovered_tile_coords = NONE
    /\ selected_tile_coords = NONE
    /\ selectable_tile_coords = << >>
    /\ tower_type_to_place = "Basic"
    /\ crashed = FALSE
    /\ last_step = Step("Init", NONE, "none", {})
    /\ chunk_gen = GenIdle

ClickNext ==
    \/ Tick
    \/ CursorMoved
    \/ CursorLeft
    \/ LeftClick
    \/ RightClick
    \/ KeyT

SpecClick == ClickInit /\ [][ClickNext]_vars

StartsAnimation ==
    phase = "Player" /\ current_animations = << >> /\ current_animations' # << >>

\* A step of a caravan move of several tiles is due at the next tick.
CaravanStepDue ==
    interface_mode.kind = "MovingCaravanAnimation" /\ interface_mode.remaining_moves >= 1

\* What C12 says of the animations of the player phase, the skip command
\* aside.  (1) An input that puts an animation in flight asks for the end of
\* the phase and leaves the phase Player.  (2) A step of a caravan move of
\* several tiles, started by a tick, asks for the end of the phase only when
\* it is the last one.  (3) While the animation is in flight the phase stays
\* Player; the step that removes it makes the phase Enemy when the end of the
\* phase was asked for and leaves it Player otherwise.  (4) With no animation
\* in flight the phase becomes Enemy only by the skip command or by the last
\* step of a caravan move that is over in the tick that starts it.  (5) The
\* skip command is accepted only in the player phase with no animation in
\* flight, and does not change the phase itself.
DeferredEnd ==
    /\ (StartsAnimation /\ interface_mode' = interface_mode) =>
           end_player_phase_after_animation' /\ phase' = "Player"
    /\ (StartsAnimation /\ interface_mode' # interface_mode) =>
           /\ CaravanStepDue
           /\ phase' = "Player"
           /\ end_player_phase_after_animation' <=> interface_mode.remaining_moves = 1
    /\ (phase = "Player" /\ current_animations # << >>) =>
           IF end_player_phase_after_animation
           THEN \/ phase' = "Player" /\ current_animations' = current_animations
                \/ phase' = "Enemy" /\ current_animations' = << >>
           ELSE phase' = "Player"
    /\ (phase = "Player" /\ current_animations = << >> /\ phase' # "Player") =>
           /\ phase' = "Enemy"
           /\ \/ end_player_phase_right_now
              \/ interface_mode.kind = "MovingCaravanAnimation"
                 /\ interface_mode.remaining_moves = 1
    /\ (end_player_phase_right_now' /\ ~end_player_phase_right_now) =>
           phase = "Player" /\ phase' = "Player" /\ current_animations = << >>

Confirming ==
    /\ selected_tile_coords # NONE /\ selected_tile_coords = hovered_tile_coords
    /\ current_animations = << >> /\ phase = "Player"

\* The selected tile is one of the targets C13 lists: free ground with less
\* than the price of a tower in crystals, a tree, a rock, an enemy or a tower,
\* or free water.
IllegalTarget ==
    LET tile == Get(map, selected_tile_coords)
    IN  \/ tile.obj = NONE /\ ~has_water(tile) /\ crystal_amount < 10
        \/ tile.obj.kind \in {"Tree", "Rock", "Enemy", "Tower"}
        \/ tile.obj = NONE /\ has_water(tile)

\* C13: a left click that confirms an illegal target, or that is made with
\* the pointer outside the grid, changes neither the grid, the crystal
\* amount, the phase nor the animations in flight.
C13_IllegalClickIsNoOp ==
    [][(LeftClick /\ ((Confirming /\ IllegalTarget) \/ hovered_tile_coords = NONE)) =>
          UNCHANGED << map, crystal_amount, phase, current_animations >>]_vars

\* The player may confirm the placement of a tower on free grass in the normal
\* mode, one crystal short of the price: the click has left everything as it
\* is, no animation is in flight and no crystal is spent.
C13_OneCrystalShort ==
    /\ Confirming /\ interface_mode = Normal /\ crystal_amount = 9
    /\ Get(map, selected_tile_coords) = Tile(Grass, NONE)
    /\ ENABLED LeftClick

\* C14: a left click that confirms a tile holding a crystal, in the normal
\* mode, adds exactly 30 to the crystal amount, takes the crystal off its
\* tile into a Disappear animation and changes no other tile; the phase stays
\* Player while that animation is in flight and becomes Enemy in the step
\* that removes it.
C14_MiningACrystal ==
    [][/\ (LeftClick /\ Confirming /\ interface_mode = Normal
              /\ ObjAt(map, selected_tile_coords) = Crystal) =>
              /\ crystal_amount' = crystal_amount + 30
              /\ map'.dims = map.dims
              /\ \A c \in GridCoords(map) :
                     Get(map', c) = IF c = selected_tile_coords
                                    THEN Tile(Get(map, c).ground, NONE)
                                    ELSE Get(map, c)
              /\ current_animations' = << Disappear(Crystal, selected_tile_coords) >>
              /\ phase' = "Player"
       /\ (phase = "Player" /\ current_animations # << >>
              /\ current_animations[1].kind = "Disappear") =>
              \/ phase' = "Player" /\ current_animations' = current_animations
              \/ phase' = "Enemy" /\ current_animations' = << >>
                                   /\ ObjAt(map', current_animations[1].from) = NONE]_vars

\* The crystal of the first chunk has been mined in the first turn: the
\* player has 50 crystals, the tile is free and the phase has become Enemy
\* (no phase step has run yet).
C14_CrystalMined ==
    /\ phase = "Enemy" /\ turn_counter = 0 /\ last_step.kind = "Init"
    /\ crystal_amount = 50 /\ current_animations = << >>
    /\ Get(map, Coords(1, 0)) = Tile(Grass, NONE)

\* C15: the crystal amount is never negative, and it decreases only in a
\* left click that confirms the placement of a tower on a free tile that is
\* not water, made with at least 10 crystals, which takes exactly 10.
C15_CrystalsNeverNegative ==
    /\ [](crystal_amount >= 0)
    /\ [][crystal_amount' < crystal_amount =>
             /\ crystal_amount >= 10
             /\ crystal_amount' = crystal_amount - 10
             /\ LeftClick /\ Confirming
             /\ Get(map, selected_tile_coords).obj = NONE
             /\ ~has_water(Get(map, selected_tile_coords))
             /\ current_animations' =
                    << Appear(Tower(0, initial_hp(tower_type_to_place), 0,
                                    tower_type_to_place), selected_tile_coords) >>]_vars

\* The last 10 crystals have paid for a pink tower, which stands on the map.
C15_LastCrystalsSpent ==
    /\ crystal_amount = 0
    /\ \E c \in GridCoords(map) :
           ObjAt(map, c).kind = "Tower" /\ ObjAt(map, c).variant = "Pink"

\* The tile that holds the caravan, if any.
CaravanAt(grid) == { c \in GridCoords(grid) : ObjAt(grid, c) = Caravan }

\* C16: while the caravan stands on a tile, distance_traveled is the path
\* distance of that tile; distance_traveled changes only by one, in a step
\* that takes the caravan one tile forward; the click that sends the caravan
\* to a tile k further along the path asks for k moves, and each caravan step
\* of that move takes one of them and adds one to distance_traveled.
C16_DistanceTraveled ==
    /\ [](\A c \in CaravanAt(map) : distance_traveled = DistAt(map, c))
    /\ [][/\ distance_traveled' # distance_traveled =>
                /\ distance_traveled' = distance_traveled + 1
                /\ \E c \in CaravanAt(map) :
                       /\ ObjAt(map', c) = NONE
                       /\ \/ current_animations' =
                                << Move(Caravan, c, Add(c, Get(map, c).ground.forward)) >>
                          \/ ObjAt(map', Add(c, Get(map, c).ground.forward)) = Caravan
          /\ (interface_mode = MovingCaravanChoosingDst
                /\ interface_mode'.kind = "MovingCaravanAnimation") =>
                /\ hovered_tile_coords # NONE
                /\ interface_mode'.remaining_moves =
                       DistAt(map, hovered_tile_coords) - distance_traveled
                /\ interface_mode'.remaining_moves >= 1
          /\ (interface_mode.kind = "MovingCaravanAnimation"
                /\ interface_mode'.kind = "MovingCaravanAnimation"
                /\ interface_mode' # interface_mode) =>
                /\ interface_mode'.remaining_moves = interface_mode.remaining_moves - 1
                /\ distance_traveled' = distance_traveled + 1]_vars

\* The caravan has been sent two tiles ahead and stands there, the move is
\* over and the interface is back to normal.
C16_CaravanTwoTilesAhead ==
    /\ CaravanAt(map) = { Coords(1, 1) } /\ distance_traveled = 2
    /\ current_animations = << >> /\ interface_mode = Normal
    /\ turn_counter = 0 /\ ~end_player_phase_right_now

\* C17: every enemy and every tower on the grid has at least 1 hp, and
\* neither a negative number of pending actions nor a negative fire counter:
\* the damage that brings an object to 0 hp or less takes it off its tile.
C17_ObjectsAreAlive ==
    \A c \in GridCoords(map) :
        ObjAt(map, c).kind \in {"Enemy", "Tower"} =>
            ObjAt(map, c).hp >= 1 /\ ObjAt(map, c).actions >= 0 /\ ObjAt(map, c).fire >= 0

\* The fire damage has just brought an enemy to 0 hp: its tile is free.
C17_EnemyRemovedAtZeroHp ==
    /\ last_step.kind = "Enemy" /\ last_step.result = "burnt"
    /\ last_step.burnt = { last_step.at }
    /\ ObjAt(map, last_step.at) = NONE

\* The animations in flight, and the ones the step takes out of the list.
InFlight == { current_animations[i] : i \in DOMAIN current_animations }

Finalized == { a \in InFlight : \A j \in DOMAIN current_animations' : current_animations'[j] # a }

\* The tile a Shoot animation ends on.
Target(a) == Add(a.from, a.direction)

\* A Shoot animation that the step finalizes on a tile of the grid that holds
\* an object.
Hits(a) ==
    /\ a \in Finalized /\ a.kind = "Shoot"
    /\ Contains(map.dims, Target(a)) /\ ObjAt(map, Target(a)) # NONE

\* The Shoot animations that start from the tile `c` after the step (their
\* places in the list).
ShotsFrom(c) ==
    { j \in DOMAIN current_animations' :
        current_animations'[j].kind = "Shoot" /\ current_animations'[j].from = c }

\* The object left by the payload of the shot `s` on an object: the damage
\* first (an enemy or a tower brought to 0 hp or less is removed), then the
\* fire and the actions added to what still stands; other objects are as
\* they were.
Payload(obj, s) ==
    IF obj.kind \notin {"Enemy", "Tower"} THEN obj
    ELSE IF obj.hp - s.damages <= 0 THEN NONE
    ELSE [obj EXCEPT !.hp = @ - s.damages,
                     !.fire = @ + s.fire,
                     !.actions = @ + s.additional_actions]

\* C18: a piercing shot finalized on an occupied tile of the grid applies its
\* payload to that tile and leaves exactly one successor, which starts from
\* the tile hit, keeps the direction and carries the nested shot; a shot
\* without cascade that hits leaves no successor.
C18_PiercingShot ==
    [][\A a \in InFlight :
          /\ (Hits(a) /\ a.shot.cascade.kind = "Piercing") =>
                /\ ObjAt(map', Target(a)) = Payload(ObjAt(map, Target(a)), a.shot)
                /\ Cardinality(ShotsFrom(Target(a))) = 1
                /\ \A j \in ShotsFrom(Target(a)) :
                       current_animations'[j] =
                           Shoot(Target(a), a.direction, a.shot.cascade.shot)
          /\ (Hits(a) /\ a.shot.cascade.kind = "None") =>
                /\ ObjAt(map', Target(a)) = Payload(ObjAt(map, Target(a)), a.shot)
                /\ ShotsFrom(Target(a)) = {}]_vars

\* The blue shot has pierced twice along the path: the first enemy hit has
\* the two actions of the first stage, the second one the wound of the second
\* stage, and the third stage, the fire, is in flight from the second enemy.
C18_ThirdStageInFlight ==
    /\ current_animations = << Shoot(Coords(0, 1), LEFT, Shot(0, 4, 0, CascadeNone)) >>
    /\ ObjAt(map, Coords(1, 1)) = Enemy(2, 8, 0)
    /\ ObjAt(map, Coords(0, 1)) = Enemy(0, 7, 0)
    /\ ObjAt(map, Coords(2, 1)) = Tower(0, 3, 0, "Blue")

\* The unit vectors along the axes.
UnitDeltas == { d \in { CoordsDelta(dx, dy) : dx \in -1..1, dy \in -1..1 } :
                  d.dx * d.dx + d.dy * d.dy = 1 }

\* C19: a shot that splits in two, finalized on an occupied tile of the grid,
\* leaves exactly two successors from the tile hit, both with the nested
\* shot, in two opposite directions along the axis perpendicular to its own.
C19_SplitShot ==
    [][\A a \in InFlight :
          (Hits(a) /\ a.shot.cascade.kind = "SplitInTwo") =>
              /\ a.direction \in UnitDeltas
              /\ Cardinality(ShotsFrom(Target(a))) = 2
              /\ \A j \in ShotsFrom(Target(a)) :
                     /\ current_animations'[j].shot = a.shot.cascade.shot
                     /\ current_animations'[j].direction \in UnitDeltas
                     /\ current_animations'[j].direction.dx * a.direction.dx
                          + current_animations'[j].direction.dy * a.direction.dy = 0
              /\ \E j, k \in ShotsFrom(Target(a)) :
                     current_animations'[k].direction
                         = Neg(current_animations'[j].direction)]_vars

\* The pink tower on the path has shot upwards at the enemy above it: the
\* enemy is healed by one and the two side shots leave its tile to the left
\* and to the right.
C19_SplitOfAShotUpwards ==
    /\ ObjAt(map, Coords(2, 1)) = Tower(0, 4, 0, "Pink")
    /\ ObjAt(map, Coords(2, 0)) = Enemy(0, 9, 0)
    /\ InFlight = { Shoot(Coords(2, 0), LEFT, Shot(3, 0, 0, CascadeNone)),
                     Shoot(Coords(2, 0), RIGHT, Shot(3, 0, 0, CascadeNone)) }

EndTile(a) ==
    CASE a.kind = "Shoot" -> Target(a)
      [] a.kind \in {"Move", "Appear"} -> a.to
      [] OTHER -> NONE

\* The successors of an animation finalized now, as C18, C19 and C20 give
\* them: those of a shot that hits, the same shot one tile further over a
\* free tile, none outside the grid and none for the other animations.
SuccessorsOf(a) ==
    IF a.kind = "Shoot" /\ Contains(map.dims, Target(a))
    THEN IF ObjAt(map, Target(a)) = NONE
         THEN << Shoot(Target(a), a.direction, a.shot) >>
         ELSE CASE a.shot.cascade.kind = "None" -> << >>
                [] a.shot.cascade.kind = "Piercing" ->
                     << Shoot(Target(a), a.direction, a.shot.cascade.shot) >>
                [] a.shot.cascade.kind = "SplitInTwo" ->
                     << Shoot(Target(a), CoordsDelta(a.direction.dy, a.direction.dx),
                              a.shot.cascade.shot),
                        Shoot(Target(a), CoordsDelta(-a.direction.dy, -a.direction.dx),
                              a.shot.cascade.shot) >>
    ELSE << >>

\* The list after a tick that finds done the animations at the places `done`:
\* the other ones in their order, then the successors of the finished ones.
RECURSIVE StillInFlight(_, _)
StillInFlight(i, done) ==
    IF i > Len(current_animations) THEN << >>
    ELSE (IF i \in done THEN << >> ELSE << current_animations[i] >>)
         \o StillInFlight(i + 1, done)

RECURSIVE Spawned(_, _)
Spawned(i, done) ==
    IF i > Len(current_animations) THEN << >>
    ELSE (IF i \in done THEN SuccessorsOf(current_animations[i]) ELSE << >>)
         \o Spawned(i + 1, done)

\* The tile `c` after that tick: untouched when no finished animation ends on
\* it, and with the effect of the animation applied once when one does.
EffectOnce(c, done) ==
    LET ending == { i \in done : EndTile(current_animations[i]) = c }
    IN  /\ ending = {} => ObjAt(map', c) = ObjAt(map, c)
        /\ \A i \in ending :
               ending = {i} =>
                   ObjAt(map', c) =
                       IF current_animations[i].kind = "Shoot"
                       THEN Payload(ObjAt(map, c), current_animations[i].shot)
                       ELSE current_animations[i].obj

\* C21: a tick that runs with animations in flight (and no end of the player
\* phase due) finds some of them done: these leave the list, the other ones
\* stay in their order, the successors of the finished ones come after them
\* and are all still in flight, and every tile has received the effect of a
\* finished animation that ends on it exactly once and no other effect, so
\* that no successor has been finalized in that tick.
C21_FinalizedOnce ==
    [][(current_animations # << >> /\ ~end_player_phase_after_animation /\ Tick) =>
          \E done \in SUBSET DOMAIN current_animations :
              /\ current_animations' = StillInFlight(1, done) \o Spawned(1, done)
              /\ \A c \in GridCoords(map) : EffectOnce(c, done)]_vars

\* The first stage of the blue shot has hit the enemy below the tower, once:
\* the enemy has two more actions, and the second stage is in flight from
\* its tile.
C21_SecondStageInFlight ==
    /\ current_animations =
          << Shoot(Coords(1, 1), DOWN, Shot(1, 0, 0, Piercing(Shot(0, 4, 0, CascadeNone)))) >>
    /\ ObjAt(map, Coords(1, 0)) = Tower(0, 3, 0, "Blue")
    /\ ObjAt(map, Coords(1, 1)).kind = "Enemy" /\ ObjAt(map, Coords(1, 1)).actions = 2

\* The number of hits a shot can still make: its own and the ones of the
\* shots its cascade makes.
RECURSIVE HitsLeft(_)
HitsLeft(s) ==
    CASE s.cascade.kind = "None" -> 1
      [] s.cascade.kind = "Piercing" -> 1 + HitsLeft(s.cascade.shot)
      [] s.cascade.kind = "SplitInTwo" -> 1 + 2 * HitsLeft(s.cascade.shot)

\* The number of hits the animations of a list can still make.
RECURSIVE HitsLeftIn(_)
HitsLeftIn(anims) ==
    IF anims = << >> THEN 0
    ELSE (IF Head(anims).kind = "Shoot" THEN HitsLeft(Head(anims).shot) ELSE 0)
         + HitsLeftIn(Tail(anims))

\* The hits a tower shot may make.
MaxHits(variant) ==
    CASE variant = "Basic" -> 1
      [] variant = "Pink" -> 3
      [] variant = "Blue" -> 3

\* The finished animations, among the ones at the places `done`, that hit
\* an object.
HitsAmong(done) ==
    { i \in done : /\ current_animations[i].kind = "Shoot"
                   /\ Contains(map.dims, Target(current_animations[i]))
                   /\ ObjAt(map, Target(current_animations[i])) # NONE }

\* C22: with ticks that keep coming and animations that finish, the
\* animation list becomes empty after it has been filled; the shot a tower
\* fires can make at most 1 hit for a basic tower, 3 for a pink one and 3 for
\* a blue one, and every tick that finalizes animations lowers the number of
\* hits the list can still make by at least the number of hits it makes.
C22_CascadesEnd ==
    /\ (current_animations # << >>) ~> (current_animations = << >>)
    /\ [][/\ (phase = "Tower" /\ current_animations = << >> /\ current_animations' # << >>) =>
               /\ Len(current_animations') = 1
               /\ current_animations'[1].kind = "Shoot"
               /\ ObjAt(map, current_animations'[1].from).kind = "Tower"
               /\ HitsLeftIn(current_animations') <=
                      MaxHits(ObjAt(map, current_animations'[1].from).variant)
          /\ (current_animations # << >> /\ Tick) =>
               \E done \in SUBSET DOMAIN current_animations :
                   /\ current_animations' = StillInFlight(1, done) \o Spawned(1, done)
                   /\ HitsLeftIn(current_animations') + Cardinality(HitsAmong(done))
                          <= HitsLeftIn(current_animations)]_vars

\* The shot of the pink tower has made its three hits (the enemy below it
\* healed by one, the enemies on both sides of that one wounded by three) and
\* no animation is left.
C22_PinkShotSpent ==
    /\ current_animations = << >>
    /\ ObjAt(map, Coords(1, 0)) = Tower(0, 4, 0, "Pink")
    /\ ObjAt(map, Coords(1, 1)) = Enemy(0, 9, 0)
    /\ ObjAt(map, Coords(0, 1)) = Enemy(0, 5, 0)
    /\ ObjAt(map, Coords(2, 1)) = Enemy(0, 5, 0)

\* The stage of a shot of the blue tower: 1 for the shot the tower fires, 2
\* and 3 for the ones its cascade makes.
StageOf(a) == 4 - HitsLeft(a.shot)

\* The occupied tiles strictly between the tower that has just fired and the
\* tile the shot `a` ends on, when that tile is `n` tiles from the tower.
OccupiedBefore(a, n) ==
    { j \in 1..(n - 1) :
        ObjAt(map, Coords(last_step.at.x + j * a.direction.dx,
                          last_step.at.y + j * a.direction.dy)) # NONE }

\* C23: while the cascade of a blue tower's shot runs, the shot in flight is
\* on the line from the tower, and its stage is one more than the number of
\* occupied tiles between the tower and the tile it ends on: stage 1 ends on
\* the first occupied tile A, stage 2 on the next one B, stage 3 on the next
\* one C.  An enemy or a tower hit by stage 1 gets 2 more actions, hit by
\* stage 2 (with more than 1 hp) loses 1 hp, hit by stage 3 gets 4 more fire,
\* and nothing else of it changes.  A shot that ends outside the grid leaves
\* the grid as it was and no shot in flight.
C23_BlueShotStages ==
    /\ [](current_animations # << >> =>
            /\ Len(current_animations) = 1
            /\ last_step.kind = "Tower" /\ last_step.result = "shot"
            /\ ObjAt(map, last_step.at).kind = "Tower"
            /\ ObjAt(map, last_step.at).variant = "Blue"
            /\ current_animations[1].kind = "Shoot"
            /\ StageOf(current_animations[1]) \in 1..3
            /\ \E n \in 1..(map.dims.w + map.dims.h) :
                   /\ Target(current_animations[1]) =
                          Coords(last_step.at.x + n * current_animations[1].direction.dx,
                                 last_step.at.y + n * current_animations[1].direction.dy)
                   /\ Cardinality(OccupiedBefore(current_animations[1], n)) =
                          StageOf(current_animations[1]) - 1)
    /\ [][(current_animations # << >> /\ current_animations' # current_animations) =>
            LET a == current_animations[1]
                obj == ObjAt(map, Target(a))
            IN  /\ ~Contains(map.dims, Target(a)) =>
                       map' = map /\ current_animations' = << >>
                /\ (Contains(map.dims, Target(a)) /\ obj.kind \in {"Enemy", "Tower"}) =>
                       /\ StageOf(a) = 1 =>
                              ObjAt(map', Target(a)) = [obj EXCEPT !.actions = @ + 2]
                       /\ (StageOf(a) = 2 /\ obj.hp > 1) =>
                              ObjAt(map', Target(a)) = [obj EXCEPT !.hp = @ - 1]
                       /\ StageOf(a) = 3 =>
                              ObjAt(map', Target(a)) = [obj EXCEPT !.fire = @ + 4]
                       /\ \A c \in GridCoords(map) \ {Target(a)} :
                              ObjAt(map', c) = ObjAt(map, c)]_vars

\* The three stages of the shot of the blue tower at (1, 1) have hit the
\* three objects to its right: the enemy has 2 actions, the basic tower has
\* lost 1 hp and the second enemy burns with 4 fire.
C23_ThreeStagesApplied ==
    /\ current_animations = << >>
    /\ ObjAt(map, Coords(1, 1)) = Tower(0, 3, 0, "Blue")
    /\ ObjAt(map, Coords(2, 1)) = Enemy(2, 8, 0)
    /\ ObjAt(map, Coords(3, 1)) = Tower(0, 2, 0, "Basic")
    /\ ObjAt(map, Coords(4, 1)) = Enemy(0, 2, 4)

\* The tiles of a grid that have path.
PathTiles(grid) == { c \in GridCoords(grid) : has_path(Get(grid, c)) }

\* The tiles met from `c` by following the forward deltas while they lead to
\* a path tile of the grid (at most `n` more of them).
RECURSIVE ForwardWalk(_, _, _)
ForwardWalk(grid, c, n) ==
    LET next == Add(c, Get(grid, c).ground.forward)
    IN  IF n = 0 \/ ~Contains(grid.dims, next) THEN << c >>
        ELSE IF ~has_path(Get(grid, next)) THEN << c >>
        ELSE << c >> \o ForwardWalk(grid, next, n - 1)

\* The path of a chunk is one walk: it has one entry on column 0, and the
\* walk from it by the forward deltas meets every path tile, each once, the
\* distance growing by one per tile, up to a tile of the last column whose
\* forward delta is RIGHT.
IsOneWalk(grid) ==
    LET entries == { c \in PathTiles(grid) : c.x = 0 /\ Get(grid, c).ground.backward = LEFT }
        walk == ForwardWalk(grid, CHOOSE c \in entries : TRUE, grid.dims.w * grid.dims.h)
    IN  /\ Cardinality(entries) = 1
        /\ { walk[i] : i \in DOMAIN walk } = PathTiles(grid)
        /\ Len(walk) = Cardinality(PathTiles(grid))
        /\ \A i \in 1..(Len(walk) - 1) :
               /\ Add(walk[i], Get(grid, walk[i]).ground.forward) = walk[i + 1]
               /\ Get(grid, walk[i + 1]).ground.distance =
                      Get(grid, walk[i]).ground.distance + 1
        /\ walk[Len(walk)].x = grid.dims.w - 1
        /\ Get(grid, walk[Len(walk)]).ground.forward = RIGHT

\* C24: the path of the grid that the walk of Chunk::generate hands to the
\* passes is one walk from the entry on column 0 to a tile of the last
\* column whose forward delta is RIGHT, that meets every path tile once with
\* a distance that grows by one per tile, and so is the path of the chunk
\* returned after the water, tree, rock, crystal and enemy passes.
C24_ChunkPathIsOneWalk ==
    chunk_gen.pc \in {"passes", "returned"} => IsOneWalk(chunk_gen.grid)

\* A chunk is returned in which the passes have left water, a tree and an
\* enemy.
C24_ChunkWithWaterTreeAndEnemy ==
    /\ chunk_gen.pc = "returned"
    /\ \E c \in GridCoords(chunk_gen.grid) : has_water(Get(chunk_gen.grid, c))
    /\ \E c \in GridCoords(chunk_gen.grid) : Get(chunk_gen.grid, c).obj = Tree
    /\ \E c \in GridCoords(chunk_gen.grid) : has_enemy(Get(chunk_gen.grid, c))

\* The path tile of least distance of a grid that has path tiles.
EntryTile(grid) ==
    CHOOSE c \in PathTiles(grid) :
        \A c2 \in PathTiles(grid) :
            Get(grid, c).ground.distance <= Get(grid, c2).ground.distance

\* C25: Chunk::generate runs with the join of the map (the row and distance
\* of the path tile that leaves its last column to the right, none for the
\* empty map).  The entry tile of the grid it hands to the passes and of the
\* chunk it returns is on column 0 with backward delta LEFT; with a join it
\* is on the row of the join with the distance of the join plus one, and
\* without one its distance is 0.
C25_EntryTileContinuesJoin ==
    chunk_gen.pc \in {"passes", "returned"} =>
        LET join == chunk_gen.last_path_y_and_dist
            entry == EntryTile(chunk_gen.grid)
        IN  /\ join = rightmost_path_y_and_dist(map)
            /\ entry.x = 0
            /\ Get(chunk_gen.grid, entry).ground.backward = LEFT
            /\ IF join = NONE
               THEN Get(chunk_gen.grid, entry).ground.distance = 0
               ELSE /\ entry.y = join.y
                    /\ Get(chunk_gen.grid, entry).ground.distance = join.distance + 1

\* A chunk is returned for a map whose path leaves by row 3: its entry
\* is on row 3, one further than the last tile of the map.
C25_ChunkForAJoin ==
    /\ chunk_gen.pc = "returned"
    /\ map = PreviousMap
    /\ chunk_gen.last_path_y_and_dist.y = 3
    /\ has_path(Get(chunk_gen.grid, Coords(0, 3)))
    /\ Get(chunk_gen.grid, Coords(0, 3)).ground.distance =
          Get(map, Coords(WalkW - 1, 3)).ground.distance + 1

\* A chunk is returned for the empty map, with its entry on row 2.
C25_ChunkForNoJoin ==
    /\ chunk_gen.pc = "returned"
    /\ map = of_size_zero
    /\ EntryTile(chunk_gen.grid) = Coords(0, 2)

\* A path tile turns when its backward and forward deltas are not on one
\* line.
Turns(ground) == ground.forward # Neg(ground.backward)

\* The path tiles that turn and are followed by a path tile that turns.
UTurns(grid) ==
    { c \in PathTiles(grid) :
        /\ Turns(Get(grid, c).ground)
        /\ Add(c, Get(grid, c).ground.forward) \in PathTiles(grid)
        /\ Turns(Get(grid, Add(c, Get(grid, c).ground.forward)).ground) }

Westward(grid) == { c \in PathTiles(grid) : Get(grid, c).ground.forward = LEFT }

\* The candidate that leaves the grid from the head now would fail a
\* criterion.
ExitWouldBeRejected ==
    LET g == chunk_gen
        turns_now == Sub(g.prev_head, g.cur_head).dy # 0
    IN  \/ g.how_many_times_does_it_go_westward < 2
        \/ g.distance_in_chunk + 1 \notin 14..29
        \/ g.u_turn_count + (IF g.it_turned_last_tile /\ turns_now THEN 1 ELSE 0) > 1

C26_DeadEnd ==
    chunk_gen.pc = "walk" /\ Len(possible_directions(chunk_gen)) = 0

\* Every path tile of the grid whose forward delta leads to a tile of the
\* grid leads to a path tile that is one further and points back to it.
PathIsLinked(grid) ==
    \A t \in PathTiles(grid) :
        LET next == Add(t, Get(grid, t).ground.forward)
        IN  Contains(grid.dims, next) =>
                /\ has_path(Get(grid, next))
                /\ Get(grid, next).ground.distance = Get(grid, t).ground.distance + 1
                /\ Get(grid, next).ground.backward = Neg(Get(grid, t).ground.forward)

\* C27: in every state the path of the map is linked, the tiles on both
\* sides of the boundary of two chunks included, and no step changes the
\* ground of a path tile of the map: its distance and its deltas stay as
\* the generation left them.
C27_PathIsLinked ==
    /\ [](~crashed => PathIsLinked(map))
    /\ [][\A t \in PathTiles(map) : Get(map', t).ground = Get(map, t).ground]_vars

\* A second chunk has been appended to the map, and the caravan has gone
\* over the tiles of the first one.
C27_SecondChunkAppended ==
    /\ map.dims.w = 2 * ChunkDims.w
    /\ has_path(Get(map, Coords(ChunkDims.w - 1, 0)))
    /\ Get(map, Coords(ChunkDims.w - 1, 0)).ground.forward = RIGHT
    /\ has_path(Get(map, Coords(ChunkDims.w, 0)))
    /\ distance_traveled >= 1

\* The cell of a grid at column x and row y, read from its vector of cells.
Cell(grid, x, y) == grid.content[y * grid.dims.w + x + 1]

\* C28: when Map::generate_chunk_on_the_right appends the chunk B returned
\* by the generator to the map A, the new map is B when A is the 0 x 0 grid;
\* otherwise it has the width of A plus the width of B and the height of A,
\* its cell (x, y) is the cell (x, y) of A when x is less than the width of
\* A and the cell (x - width of A, y) of B otherwise, and so every tile of A
\* is where it was and as it was.
C28_AddToRight ==
    [][(chunk_gen.pc = "returned" /\ chunk_gen'.pc = "idle") =>
          IF map = of_size_zero
          THEN map' = chunk_gen.grid
          ELSE /\ map'.dims = Dimensions(map.dims.w + chunk_gen.grid.dims.w, map.dims.h)
               /\ Len(map'.content) = map'.dims.w * map'.dims.h
               /\ \A x \in 0..(map'.dims.w - 1), y \in 0..(map'.dims.h - 1) :
                      Cell(map', x, y) = IF x < map.dims.w
                                         THEN Cell(map, x, y)
                                         ELSE Cell(chunk_gen.grid, x - map.dims.w, y)
               /\ \A c \in GridCoords(map) : Get(map', c) = Get(map, c)]_vars

\* A chunk with an enemy on its entry has been appended to the map of one
\* chunk.
C28_ChunkAppendedToAMap ==
    /\ chunk_gen.pc = "idle"
    /\ map.dims = Dimensions(2 * WalkW, WalkH)
    /\ has_enemy(Get(map, Coords(WalkW, 3)))
    /\ ~has_enemy(Get(map, Coords(WalkW - 1, 3)))

\* The coordinates in and around a grid.
AroundGrid(grid) ==
    { Coords(x, y) : x \in (-1)..grid.dims.w, y \in (-1)..grid.dims.h }

\* Grid::get on `grid` gives the cell at index y * w + x for the coordinates
\* with 0 <= x < w and 0 <= y < h and nothing for the other ones.
GetInBoundsOnly(grid) ==
    \A c \in AroundGrid(grid) :
        Get(grid, c) =
            IF 0 <= c.x /\ c.x < grid.dims.w /\ 0 <= c.y /\ c.y < grid.dims.h
            THEN grid.content[c.y * grid.dims.w + c.x + 1]
            ELSE NONE

\* C29: on the map and on the grid of the generator, in every state,
\* Grid::get gives the cell at index y * w + x when 0 <= x < w and
\* 0 <= y < h, and none for the coordinates of the rows and columns just
\* outside the grid.
C29_GetInBoundsOnly ==
    GetInBoundsOnly(map) /\ GetInBoundsOnly(chunk_gen.grid)

\* The head of the walk is on the last column of the last row, where get
\* finds no tile below and the way out to the right is not a tile either.
C29_HeadInTheCorner ==
    /\ chunk_gen.pc = "walk"
    /\ chunk_gen.cur_head = Coords(WalkW - 1, WalkH - 1)
    /\ Get(chunk_gen.grid, Add(chunk_gen.cur_head, DOWN)) = NONE
    /\ Get(chunk_gen.grid, Add(chunk_gen.cur_head, RIGHT)) = NONE

C30_SpawnTileTaken ==
    /\ phase = "Tower" /\ last_step.kind = "EndEnemyPhase"
    /\ last_step.at = Coords(3, 0)
    /\ ObjAt(map, Coords(3, 0)) = Enemy(0, 8, 0)
    /\ ObjAt(map, Coords(3, 1)) = Enemy(0, 8, 0)

\* A step in which the end of the player phase is executed: the flag that
\* asked for it is lowered, which only that code does.
EndOfPlayerPhaseExecuted ==
    \/ end_player_phase_after_animation /\ ~end_player_phase_after_animation'
    \/ end_player_phase_right_now /\ ~end_player_phase_right_now'

\* C31: the end of the player phase (phase = Enemy and one more action for
\* every enemy) is executed only while the phase is Player, so once per
\* turn, whatever the order of the clicks, key presses and ticks.
C31_GrantOnlyInPlayerPhase ==
    [][EndOfPlayerPhaseExecuted => phase = "Player"]_vars

\* The animations a step puts in flight.
Started == { current_animations'[j] : j \in DOMAIN current_animations' } \ InFlight

\* A step that starts a change of the player: a Move of the caravan (it adds
\* one to distance_traveled), the placement of a tower or the mining of a
\* crystal (they change crystal_amount), or a pan of the camera.
PlayerChangeStarted ==
    \/ distance_traveled' # distance_traveled
    \/ crystal_amount' # crystal_amount
    \/ \E a \in Started :
           \/ a.kind = "Move" /\ a.obj = Caravan
           \/ a.kind \in {"CameraMoveX", "Appear", "Disappear"}

\* C32: a change of the player (caravan Move, tower placement, crystal
\* mining, camera pan) is started only while the phase is Player.
C32_PlayerChangesInPlayerPhase ==
    [][PlayerChangeStarted => phase = "Player"]_vars

\* The objects the animations of a list carry.
Carried(anims) ==
    { anims[j].obj : j \in { i \in DOMAIN anims :
                                anims[i].kind \in {"Move", "Appear", "Disappear"} } }

\* The step finalizes the Move of an enemy onto a tile that holds the caravan
\* or a tower.
Lands(a) ==
    /\ a \in Finalized /\ a.kind = "Move" /\ a.obj.kind = "Enemy"
    /\ Contains(map.dims, a.to) /\ ObjAt(map, a.to).kind \in {"Caravan", "Tower"}

\* The caravan is on no tile and in no animation.
CaravanGone == NoCaravan(map) /\ Caravan \notin Carried(current_animations)

\* C33: when the Move of an enemy onto the tile of the caravan or of a tower
\* completes, the tile holds the enemy, every other tile is as before and no
\* animation carries a caravan or a tower (the object that stood there is
\* nowhere); once the caravan is gone it stays gone, the phase is never
\* Player again and it eventually is GameOver.
C33_EnemyReplaces ==
    /\ [][\A a \in InFlight : Lands(a) =>
              /\ map' = SetObj(map, a.to, a.obj)
              /\ \A o \in Carried(current_animations') : o.kind \notin {"Caravan", "Tower"}]_vars
    /\ [][CaravanGone => CaravanGone']_vars
    /\ [](CaravanGone => phase # "Player")
    /\ (CaravanGone ~> (phase = "GameOver"))

\* An enemy stands where the caravan stood and the game is over.
C33_EnemyOnTheCaravanTile ==
    /\ ObjAt(map, Coords(0, 0)).kind = "Enemy"
    /\ CaravanGone /\ phase = "GameOver"

\* In the first enemy phase of a battle the burning enemy of the tile (1, 1)
\* stands on the tile (0, 1), where a tower stood (an enemy that started
\* there would have played first and taken the place of the caravan).
C33_EnemyOnTheTowerTile ==
    /\ phase = "Enemy" /\ turn_counter = 0 /\ current_animations = << >>
    /\ ObjAt(map, Coords(0, 1)).kind = "Enemy" /\ ObjAt(map, Coords(0, 1)).hp < 8
    /\ ObjAt(map, Coords(0, 0)) = Caravan

\* The tile one forward step ahead of the caravan (the caravan is on a tile).
Ahead == LET c == The(CaravanAt(map)) IN Add(c, Get(map, c).ground.forward)

\* C34: Space pressed in the player phase with no animation in flight never
\* fails.  When the tile ahead of the caravan is free the caravan leaves for
\* it (its Move is put in flight, the end of the phase is asked for);
\* when that tile holds an object or is outside the map nothing changes.
C34_SpaceNeverFails ==
    [][(KeySpace /\ CaravanAt(map) # {} /\ has_path(Get(map, The(CaravanAt(map))))) =>
          /\ ~crashed'
          /\ IF Contains(map.dims, Ahead) /\ ObjAt(map, Ahead) = NONE
             THEN /\ current_animations' = << Move(Caravan, The(CaravanAt(map)), Ahead) >>
                  /\ map' = SetObj(map, The(CaravanAt(map)), NONE)
                  /\ end_player_phase_after_animation' /\ phase' = "Player"
             ELSE UNCHANGED vars]_vars

\* C35: every enemy and the caravan, on the grid, stand on a path tile, and a
\* Move that carries one of them ends on a path tile or, for the caravan,
\* past the last path tile of the map; so the search for the path of an
\* enemy or of the caravan never fails.
C35_OnThePath ==
    /\ \A c \in GridCoords(map) :
           ObjAt(map, c).kind \in {"Enemy", "Caravan"} => has_path(Get(map, c))
    /\ \A a \in InFlight :
           (a.kind = "Move" /\ a.obj.kind \in {"Enemy", "Caravan"}) =>
               IF Contains(map.dims, a.to) THEN has_path(Get(map, a.to))
               ELSE a.obj = Caravan

\* An enemy has come down the path to the tile (1, 1) and the caravan has
\* gone up the path to the tile (0, 1).
C35_EnemyAndCaravanHaveMoved ==
    /\ ObjAt(map, Coords(1, 1)).kind = "Enemy"
    /\ ObjAt(map, Coords(0, 1)) = Caravan

\* Every column of the grid holds a path tile.
ColumnsHavePath(grid) ==
    \A x \in 0..(grid.dims.w - 1) :
        \E y \in 0..(grid.dims.h - 1) : has_path(Get(grid, Coords(x, y)))

\* The rows of the path tiles of the last column whose forward delta is RIGHT.
Exits(grid) ==
    { y \in 0..(grid.dims.h - 1) :
        LET tile == Get(grid, Coords(grid.dims.w - 1, y))
        IN  has_path(tile) /\ tile.ground.forward = RIGHT }

\* A tick finds the enemy phase with no animation in flight, no caravan step
\* to make and no enemy left to play.
EnemyPhaseOver ==
    /\ phase = "Enemy" /\ current_animations = << >> /\ ~end_player_phase_right_now
    /\ interface_mode.kind # "MovingCaravanAnimation"
    /\ min_path_dist_and_coords(map) = NONE

\* C36: every column of a map that holds chunks has a path tile, and exactly
\* one path tile of its last column has the forward delta RIGHT, so that
\* rightmost_path_y_and_dist finds it; the tick that ends the enemy phase
\* does not fail, and the spawn column it computes is a column of the map
\* it leaves, where it finds a path tile.
C36_SpawnColumnInside ==
    /\ [](map.dims.w > 0 =>
            /\ ColumnsHavePath(map)
            /\ Cardinality(Exits(map)) = 1
            /\ rightmost_path_y_and_dist(map).kind = "Some")
    /\ [][(EnemyPhaseOver /\ Tick) =>
            /\ ~crashed' /\ phase' = "Tower"
            /\ SpawnColumn(camera_x) \in 0..(map'.dims.w - 1)
            /\ last_step'.kind = "EndEnemyPhase"
            /\ last_step'.at.x = SpawnColumn(camera_x)
            /\ has_path(Get(map', last_step'.at))]_vars

\* The enemy phase has ended with the camera one tile to the right, on a map
\* that a second chunk extends: the spawn column is the first column of that
\* chunk.
C36_SpawnInTheSecondChunk ==
    /\ last_step.kind = "EndEnemyPhase" /\ phase = "Tower"
    /\ camera_x = 1 /\ map.dims.w = 2 * ChunkDims.w
    /\ last_step.at.x = ChunkDims.w

\* The tiles that hold a tower.
TowersOf(grid) == { c \in GridCoords(grid) : ObjAt(grid, c).kind = "Tower" }

\* C37: a tower, on the grid or carried by an animation, has at most one
\* pending action; the actions of a tower grow only by the one of the step
\* from Enemy to Tower; no tower has an action left when the tower phase
\* ends; a shot whose payload gives actions hits an enemy, which gets them.
C37_TowerActions ==
    /\ [](/\ \A c \in TowersOf(map) : ObjAt(map, c).actions \in {0, 1}
          /\ \A o \in Carried(current_animations) : o.kind = "Tower" => o.actions = 0)
    /\ [][/\ \A c \in TowersOf(map) \cap TowersOf(map') :
                ObjAt(map', c).actions > ObjAt(map, c).actions =>
                    /\ phase = "Enemy" /\ phase' = "Tower"
                    /\ ObjAt(map', c).actions = ObjAt(map, c).actions + 1
          /\ \A c \in TowersOf(map') \ TowersOf(map) : ObjAt(map', c).actions = 0
          /\ (phase = "Tower" /\ phase' # "Tower") =>
                \A c \in TowersOf(map') : ObjAt(map', c).actions = 0
          /\ \A a \in InFlight :
                (Hits(a) /\ a.shot.additional_actions > 0) =>
                    /\ ObjAt(map, Target(a)).kind = "Enemy"
                    /\ ObjAt(map', Target(a)).kind = "Enemy"
                    /\ ObjAt(map', Target(a)).actions =
                           ObjAt(map, Target(a)).actions + a.shot.additional_actions]_vars

\* In the tower phase the blue tower has played and an enemy holds the two
\* actions of its shot.
C37_BlueShotGaveActions ==
    /\ phase = "Tower" /\ current_animations = << >>
    /\ \E c \in TowersOf(map) : ObjAt(map, c).variant = "Blue" /\ ObjAt(map, c).actions = 0
    /\ \E c \in GridCoords(map) : ObjAt(map, c).kind = "Enemy" /\ ObjAt(map, c).actions = 2

\* Two animations that are the side shots of a split cascade, or what is left
\* of them: the same shot flying in opposite directions.
SideShots(a, b) ==
    /\ a.kind = "Shoot" /\ b.kind = "Shoot"
    /\ a.shot = b.shot /\ b.direction = Neg(a.direction)

CaravanCount(grid, anims) ==
    Cardinality(CaravanAt(grid))
    + Cardinality({ i \in DOMAIN anims :
                      anims[i].kind \in {"Move", "Appear", "Disappear"}
                      /\ anims[i].obj = Caravan })

\* C39: there is at most one caravan, counting the tiles of the grid and the
\* objects carried by the animations in flight; no step makes a caravan, so
\* that a caravan that is gone is gone for good; and the one carried is
\* carried by a Move.
C39_OneCaravan ==
    /\ [](/\ CaravanCount(map, current_animations) <= 1
          /\ \A a \in InFlight : (a.kind \in {"Appear", "Disappear"}) => a.obj # Caravan)
    /\ [][CaravanCount(map', current_animations') <= CaravanCount(map, current_animations)]_vars

\* The caravan is on no tile: a Move carries it, in the enemy phase.
C39_CaravanCarried ==
    /\ CaravanAt(map) = {} /\ phase = "Enemy"
    /\ \E a \in InFlight : a.kind = "Move" /\ a.obj = Caravan

\* The caravan is gone: an enemy stands on the tile it stood on.
C39_CaravanGone ==
    /\ CaravanCount(map, current_animations) = 0
    /\ \E c \in GridCoords(map) : ObjAt(map, c).kind = "Enemy" /\ DistAt(map, c) = distance_traveled

\* The number of successors a shot leaves when it hits.
CascadeSize(s) ==
    CASE s.cascade.kind = "None" -> 0
      [] s.cascade.kind = "Piercing" -> 1
      [] s.cascade.kind = "SplitInTwo" -> 2

\* C40: a shot that hits the caravan, a tree, a rock or a crystal leaves the
\* tile as it was and its cascade leaves its successors from that tile; a
\* shot whose damage brings its enemy or tower target to 0 hit points or less
\* leaves the tile without object, whatever its fire and its additional
\* actions; and when shots are finalized the only tiles that change are
\* tiles that a shot hits, whose ground is kept.
C40_ShotFrame ==
    [][/\ \A a \in InFlight :
            Hits(a) =>
              /\ ObjAt(map, Target(a)).kind \in {"Caravan", "Tree", "Rock", "Crystal"} =>
                    /\ Get(map', Target(a)) = Get(map, Target(a))
                    /\ Cardinality(ShotsFrom(Target(a))) = CascadeSize(a.shot)
              /\ (/\ ObjAt(map, Target(a)).kind \in {"Enemy", "Tower"}
                  /\ ObjAt(map, Target(a)).hp - a.shot.damages <= 0) =>
                    ObjAt(map', Target(a)) = NONE
       /\ (Finalized # {} /\ \A b \in Finalized : b.kind = "Shoot") =>
              /\ map'.dims = map.dims
              /\ \A c \in GridCoords(map) :
                    /\ Get(map', c).ground = Get(map, c).ground
                    /\ Get(map', c) # Get(map, c) =>
                          \E b \in InFlight : Hits(b) /\ Target(b) = c]_vars

\* A shot that splits has hit the rock of the grass tile: the rock stands and
\* the two side shots leave its tile.
C40_RockHitBySplitShot ==
    /\ ObjAt(map, Coords(1, 0)) = Rock
    /\ InFlight = { Shoot(Coords(1, 0), LEFT, Shot(3, 0, 0, CascadeNone)),
                     Shoot(Coords(1, 0), RIGHT, Shot(3, 0, 0, CascadeNone)) }

\* A piercing shot has destroyed the enemy of the tile (1, 1): the tile is
\* free and the nested shot leaves it.
C40_EnemyDestroyed ==
    /\ ObjAt(map, Coords(1, 1)) = NONE
    /\ current_animations = << Shoot(Coords(1, 1), RIGHT, Shot(1, 0, 0, CascadeNone)) >>
    /\ last_step = Step("Tower", NONE, "shot", {})

====
